---- MODULE Spec2Model ----
(***************************************************************************)
(* HTTP message signatures (httpbis dialect): signMessage and verifyMessage *)
(* of src/src/httpbis/index.ts, with the structured-field values, the       *)
(* component resolution and the signature base they are built on.           *)
(*                                                                          *)
(* Text is modelled as sequences of one-character strings, a structured     *)
(* dictionary on the wire as a sequence of members whose values may be      *)
(* spelled non-canonically (pad), and a promise as a record that is         *)
(* pending, resolved with a value, or rejected with a thrown value.         *)
(***************************************************************************)
EXTENDS Integers, Sequences, FiniteSets, TLC

\* ---------------------------------------------------------------- bounds
MaxLabels == 3      \* labels in a Signature-Input header
MaxTime == 3        \* seconds on the clock and in created / expires
MaxTolerance == 1   \* seconds of configured tolerance
MaxAgeBound == 1    \* seconds of configured maxAge (0 is a legal value)

\* ------------------------------------------------------ program constants
MsPerSecond == 1000        \* Date.getTime() / 1000
DefaultExpiryMs == 300000  \* expires defaults to created + 300000 ms

\* ----------------------------------------------------- optional values
Nothing == [has |-> FALSE, v |-> 0]
Some(x) == [has |-> TRUE, v |-> x]

\* ----------------------------------------------- structured-field values
\* A bare item in memory: integer, string, token, boolean or byte sequence.
IntV(n) == [kind |-> "int", n |-> n, s |-> ""]
StrV(s) == [kind |-> "str", n |-> 0, s |-> s]
TokV(s) == [kind |-> "tok", n |-> 0, s |-> s]
BytesV(s) == [kind |-> "bytes", n |-> 0, s |-> s]
TrueV == [kind |-> "bool", n |-> 1, s |-> ""]

\* The same on the wire: pad > 0 is a non-canonical spelling of the value (a
\* leading zero of an integer, an explicit "=?1" of a boolean parameter).
Wire(v, pad) == [kind |-> v.kind, n |-> v.n, s |-> v.s, pad |-> pad]
ParseValue(w) == [kind |-> w.kind, n |-> w.n, s |-> w.s]
SerializeValue(v) == Wire(v, 0)

\* Parameters: an ordered map, a sequence of <<key, value>> with unique keys.
ParamKeys(ps) == {ps[i][1] : i \in 1..Len(ps)}
ParamHas(ps, k) == k \in ParamKeys(ps)
ParamGet(ps, k) == ps[CHOOSE i \in 1..Len(ps) : ps[i][1] = k][2]

\* Map.set: a new key is appended, an existing key keeps its position.
MapSet(ps, k, v) ==
    IF ParamHas(ps, k)
    THEN [i \in 1..Len(ps) |-> IF ps[i][1] = k THEN <<k, v>> ELSE ps[i]]
    ELSE Append(ps, <<k, v>>)

RECURSIVE ParseParams(_)
ParseParams(ws) ==
    IF ws = <<>> THEN <<>>
    ELSE LET last == ws[Len(ws)]
         IN MapSet(ParseParams(SubSeq(ws, 1, Len(ws) - 1)), last[1], ParseValue(last[2]))

SerializeParams(ps) == [i \in 1..Len(ps) |-> <<ps[i][1], SerializeValue(ps[i][2])>>]

\* An item: a bare value (a string or a token naming a component) with
\* parameters.
Item(kind, name, ps) == [kind |-> kind, name |-> name, params |-> ps]

\* parseItem / serializeItem. The text of an item starts with a double quote
\* exactly when its bare value is a string.
parseItem(text) ==
    Item(IF text.quoted THEN "str" ELSE "tok", text.name, ParseParams(text.params))
serializeItem(item) ==
    [quoted |-> item.kind = "str", name |-> item.name, params |-> SerializeParams(item.params)]

\* A dictionary member: an inner list (items, params) or an item (v, params).
InnerList(name, items, ps) ==
    [name |-> name, inner |-> TRUE, items |-> items, v |-> TrueV, params |-> ps]
ItemMember(name, v, ps) ==
    [name |-> name, inner |-> FALSE, items |-> <<>>, v |-> v, params |-> ps]

ParseMember(w) ==
    [name |-> w.name, inner |-> w.inner,
     items |-> [i \in 1..Len(w.items) |-> parseItem(w.items[i])],
     v |-> ParseValue(w.v),
     params |-> ParseParams(w.params)]
SerializeMember(m) ==
    [name |-> m.name, inner |-> m.inner,
     items |-> [i \in 1..Len(m.items) |-> serializeItem(m.items[i])],
     v |-> SerializeValue(m.v),
     params |-> SerializeParams(m.params)]

MemberNames(d) == {d[i].name : i \in 1..Len(d)}
DictHas(d, name) == name \in MemberNames(d)
DictGet(d, name) == d[CHOOSE i \in 1..Len(d) : d[i].name = name]
DictSet(d, m) ==
    IF DictHas(d, m.name)
    THEN [i \in 1..Len(d) |-> IF d[i].name = m.name THEN m ELSE d[i]]
    ELSE Append(d, m)

\* parseDictionary: members in order of first appearance, the last value of a
\* repeated key, every value read into memory.
RECURSIVE parseDictionary(_)
parseDictionary(wire) ==
    IF wire = <<>> THEN <<>>
    ELSE DictSet(parseDictionary(SubSeq(wire, 1, Len(wire) - 1)),
                 ParseMember(wire[Len(wire)]))

serializeDictionary(d) == [i \in 1..Len(d) |-> SerializeMember(d[i])]

\* serializeList([member]) and serializeInnerList(member): the text of one
\* inner list with its parameters, or of one item.
serializeInnerList(m) ==
    [inner |-> m.inner,
     items |-> [i \in 1..Len(m.items) |-> serializeItem(m.items[i])],
     v |-> SerializeValue(m.v),
     params |-> SerializeParams(m.params)]

\* The fault of a parser that reads the items of a list member and leaves
\* its parameters out.
parseListMemberWithoutParams(text, name) ==
    [name |-> name, inner |-> text.inner,
     items |-> [i \in 1..Len(text.items) |-> parseItem(text.items[i])],
     v |-> ParseValue(text.v),
     params |-> <<>>]

\* parseList(text)[0]: the member a one-member list text denotes.
parseListMember(text, name) ==
    [name |-> name, inner |-> text.inner,
     items |-> [i \in 1..Len(text.items) |-> parseItem(text.items[i])],
     v |-> ParseValue(text.v),
     params |-> ParseParams(text.params)]

\* ------------------------------------------------------------------ text
\* A string value: characters (s), or the text of a structured dictionary (d),
\* or the text of a one-member list (l), or the comma-separated `key=value`
\* entries of a cavage Signature header (c). "LF" is the line feed.
Text(s) == [s |-> s, d |-> <<>>, l |-> <<>>, c |-> <<>>]
DictText(d) == [s |-> <<>>, d |-> d, l |-> <<>>, c |-> <<>>]
ListText(m) == [s |-> <<>>, d |-> <<>>, l |-> <<m>>, c |-> <<>>]
CavageText(entries) == [s |-> <<>>, d |-> <<>>, l |-> <<>>, c |-> entries]
CavageEntry(key, words, quoted) == [key |-> key, words |-> words, quoted |-> quoted]

IsSpace(c) == c \in {" ", "LF"}

RECURSIVE trimStart(_)
trimStart(s) == IF s # <<>> /\ IsSpace(Head(s)) THEN trimStart(Tail(s)) ELSE s

RECURSIVE trimEnd(_)
trimEnd(s) ==
    IF s # <<>> /\ IsSpace(s[Len(s)]) THEN trimEnd(SubSeq(s, 1, Len(s) - 1)) ELSE s

trim(s) == trimEnd(trimStart(s))

\* replace(/\n\s*/gm, ' '): a line feed and the white space after it become
\* one space.
RECURSIVE unfold(_)
unfold(s) ==
    IF s = <<>> THEN <<>>
    ELSE IF Head(s) = "LF" THEN <<" ">> \o unfold(trimStart(Tail(s)))
    ELSE <<Head(s)>> \o unfold(Tail(s))

\* values.join(', '): in the text of a dictionary the separator is the
\* boundary between two members.
RECURSIVE join(_)
join(parts) ==
    IF parts = <<>> THEN Text(<<>>)
    ELSE IF Len(parts) = 1 THEN parts[1]
    ELSE LET rest == join(Tail(parts))
         IN IF parts[1].c # <<>> \/ rest.c # <<>>
            THEN CavageText(parts[1].c \o rest.c)
            ELSE IF parts[1].d # <<>> \/ rest.d # <<>>
            THEN DictText(parts[1].d \o rest.d)
            ELSE Text(parts[1].s \o <<",", " ">> \o rest.s)

\* String.toLowerCase and String.toUpperCase on the names the model uses.
toLowerCase(name) ==
    CASE name = "Host" -> "host"
      [] name = "Signature" -> "signature"
      [] name = "Signature-Input" -> "signature-input"
      [] name = "@Method" -> "@method"
      [] name = "Example.COM" -> "example.com"
      [] name = "Created" -> "created"
      [] name = "Expires" -> "expires"
      [] name = "keyId" -> "keyid"
      [] OTHER -> name

toUpperCase(name) ==
    CASE name = "get" -> "GET"
      [] name = "post" -> "POST"
      [] OTHER -> name

\* String.startsWith('@')
DerivedNames ==
    {"@method", "@Method", "@target-uri", "@authority", "@scheme", "@request-target",
     "@path", "@query", "@query-param", "@status", "@signature-params", "@custom"}
startsWithAt(name) == name \in DerivedNames

\* encodeURIComponent and decodeURIComponent on the values the model uses.
encodeURIComponent(v) == IF v = "d g" THEN "d%20g" ELSE v
decodeURIComponent(v) == IF v = "d%20g" THEN "d g" ELSE v

\* Number.toString on the status codes the model uses.
numberToString(n) ==
    CASE n = 200 -> "200"
      [] n = 404 -> "404"
      [] OTHER -> "0"

\* quoteString: the text of a field given without its double quotes gets
\* them; its parameters stay as written.
quoteString(text) == [text EXCEPT !.quoted = TRUE]

\* --------------------------------------------------------------- messages
\* A request has a method, a response has a status; the headers are the
\* entries of the header object in insertion order, each value a string or
\* an array of strings (a sequence of one or more parts).
Header(name, parts) == [name |-> name, value |-> parts]
isRequest(obj) == obj.method # ""

NoRequest ==
    [present |-> FALSE, method |-> "", status |-> 0,
     url |-> [protocol |-> "", hostname |-> "", port |-> "", pathname |-> "",
              search |-> "", searchParams |-> <<>>],
     headers |-> <<>>]

\* Values handed back by a resolver, or the error it throws.
Values(vals) == [ok |-> TRUE, vals |-> vals, err |-> ""]
Throws(e) == [ok |-> FALSE, vals |-> <<>>, err |-> e]

SearchHas(sp, name) == \E i \in 1..Len(sp) : sp[i][1] = name
RECURSIVE SearchGetAll(_, _)
SearchGetAll(sp, name) ==
    IF sp = <<>> THEN <<>>
    ELSE (IF Head(sp)[1] = name THEN <<Text(<<encodeURIComponent(Head(sp)[2])>>)>> ELSE <<>>)
         \o SearchGetAll(Tail(sp), name)

Href(url) ==
    <<url.protocol, "//", url.hostname>>
    \o (IF url.port # "" THEN <<":", url.port>> ELSE <<>>)
    \o <<url.pathname, url.search>>

deriveComponent(component, params, message, req) ==
    LET context == IF ParamHas(params, "req") THEN req ELSE message
    IN IF ~context.present THEN Throws("Error")
       ELSE CASE component = "@method" ->
                   IF ~isRequest(context) THEN Throws("Error")
                   ELSE Values(<<Text(<<toUpperCase(context.method)>>)>>)
              [] component = "@target-uri" ->
                   IF ~isRequest(context) THEN Throws("Error")
                   ELSE Values(<<Text(Href(context.url))>>)
              [] component = "@authority" ->
                   IF ~isRequest(context) THEN Throws("Error")
                   ELSE LET u == context.url
                            withPort ==
                                u.port # ""
                                /\ ((u.protocol = "http:" /\ u.port # "80")
                                    \/ (u.protocol = "https:" /\ u.port # "443"))
                        IN Values(<<Text(<<toLowerCase(u.hostname)>>
                                         \o (IF withPort THEN <<":", u.port>> ELSE <<>>))>>)
              [] component = "@scheme" ->
                   IF ~isRequest(context) THEN Throws("Error")
                   ELSE Values(<<Text(<<CASE context.url.protocol = "https:" -> "https"
                                          [] context.url.protocol = "http:" -> "http"
                                          [] OTHER -> "">>)>>)
              [] component = "@request-target" ->
                   IF ~isRequest(context) THEN Throws("Error")
                   ELSE Values(<<Text(<<context.url.pathname, context.url.search>>)>>)
              [] component = "@path" ->
                   IF ~isRequest(context) THEN Throws("Error")
                   ELSE Values(<<Text(<<IF context.url.pathname = "" THEN "/"
                                        ELSE context.url.pathname>>)>>)
              [] component = "@query" ->
                   IF ~isRequest(context) THEN Throws("Error")
                   ELSE Values(<<Text(<<IF context.url.search = "" THEN "?"
                                        ELSE context.url.search>>)>>)
              [] component = "@query-param" ->
                   IF ~isRequest(context) THEN Throws("Error")
                   ELSE IF ~ParamHas(params, "name") THEN Throws("Error")
                   ELSE LET name == decodeURIComponent(ParamGet(params, "name").s)
                        IN IF ~SearchHas(context.url.searchParams, name) THEN Throws("Error")
                           ELSE Values(SearchGetAll(context.url.searchParams, name))
              [] component = "@status" ->
                   IF isRequest(context) THEN Throws("Error")
                   ELSE Values(<<Text(<<numberToString(context.status)>>)>>)
              [] OTHER -> Throws("Error")

\* ----------------------------------------------------------- field values
\* The structured-field parser on character text: a list of one-character
\* tokens separated by commas, spaces allowed around a token only.
RECURSIVE splitOnComma(_, _)
splitOnComma(s, cur) ==
    IF s = <<>> THEN <<cur>>
    ELSE IF Head(s) = "," THEN <<cur>> \o splitOnComma(Tail(s), <<>>)
    ELSE splitOnComma(Tail(s), Append(cur, Head(s)))

RECURSIVE dropSP(_)
dropSP(s) == IF s # <<>> /\ Head(s) = " " THEN dropSP(Tail(s)) ELSE s
RECURSIVE dropSPEnd(_)
dropSPEnd(s) ==
    IF s # <<>> /\ s[Len(s)] = " " THEN dropSPEnd(SubSeq(s, 1, Len(s) - 1)) ELSE s

ListTokens(s) ==
    LET pieces == splitOnComma(s, <<>>)
    IN [i \in 1..Len(pieces) |-> dropSPEnd(dropSP(pieces[i]))]

\* parseHeader(value): the first of List, Dictionary, Item that parses. The
\* text of a dictionary whose members carry values is no List; character text
\* is a List of tokens or nothing.
parseHeader(value) ==
    IF value.d # <<>>
    THEN [ok |-> TRUE, isDictionary |-> TRUE, dict |-> parseDictionary(value.d), list |-> <<>>]
    ELSE LET toks == ListTokens(value.s)
             good == dropSPEnd(dropSP(value.s)) = <<>>
                     \/ \A i \in 1..Len(toks) : Len(toks[i]) = 1 /\ ~IsSpace(toks[i][1])
         IN [ok |-> good, isDictionary |-> FALSE, dict |-> <<>>,
             list |-> IF dropSPEnd(dropSP(value.s)) = <<>> THEN <<>> ELSE toks]

\* List.toString(): the canonical text of a parsed list of tokens.
RECURSIVE serializeTokens(_)
serializeTokens(toks) ==
    IF toks = <<>> THEN <<>>
    ELSE IF Len(toks) = 1 THEN toks[1]
    ELSE toks[1] \o <<",", " ">> \o serializeTokens(Tail(toks))

\* Buffer.from(text).toString('base64') wrapped in colons.
byteSequence(s) == <<":b64(">> \o s \o <<"):">>

HeaderIndex(headers, header) ==
    IF \E i \in 1..Len(headers) : toLowerCase(headers[i].name) = header
    THEN CHOOSE i \in 1..Len(headers) :
             /\ toLowerCase(headers[i].name) = header
             /\ \A j \in 1..(i - 1) : toLowerCase(headers[j].name) # header
    ELSE 0

extractHeader(header, params, message, req) ==
    LET context == IF ParamHas(params, "req") THEN req ELSE message
        at == HeaderIndex(context.headers, header)
        structured(parsed) ==
            IF ~parsed.ok THEN Throws("Error")
            ELSE IF ParamHas(params, "key") /\ ~parsed.isDictionary THEN Throws("Error")
            ELSE IF ParamHas(params, "key")
            THEN LET key == ParamGet(params, "key").s
                 IN IF ~DictHas(parsed.dict, key) THEN Throws("Error")
                    ELSE Values(<<ListText(serializeInnerList(DictGet(parsed.dict, key)))>>)
            ELSE IF parsed.isDictionary
            THEN Values(<<DictText(serializeDictionary(parsed.dict))>>)
            ELSE Values(<<Text(serializeTokens(parsed.list))>>)
        raw(clean) ==
            IF ParamHas(params, "bs")
            THEN Values(<<join([i \in 1..Len(clean) |->
                                   [clean[i] EXCEPT !.s = byteSequence(clean[i].s)]])>>)
            ELSE Values(<<join(clean)>>)
        extract(values) ==
            IF ParamHas(params, "bs") /\ (ParamHas(params, "sf") \/ ParamHas(params, "key"))
            THEN Throws("Error")
            ELSE IF ParamHas(params, "sf") \/ ParamHas(params, "key")
            THEN structured(parseHeader(join(values)))
            ELSE raw([i \in 1..Len(values) |->
                         [values[i] EXCEPT !.s = unfold(trim(values[i].s))]])
    IN IF ~context.present THEN Throws("Error")
       ELSE IF at = 0 THEN Throws("Error")
       ELSE extract(context.headers[at].value)

\* normaliseParams: byte sequences and tokens become plain strings.
normaliseParams(params) ==
    [i \in 1..Len(params) |->
        <<params[i][1],
          IF params[i][2].kind \in {"bytes", "tok"} THEN StrV(params[i][2].s)
          ELSE params[i][2]>>]

\* The consumer's componentParser, when one is configured: it resolves the
\* component "@custom" itself and defers every other one (null).
componentParser(name, params, message, req) ==
    IF name = "@custom" THEN Some(<<Text(<<"c">>)>>) ELSE Nothing

\* createSignatureBase: the pairs (identifier text, values) of the fields in
\* order, or the error of the first field that does not resolve.
RECURSIVE createSignatureBase(_, _, _, _)
createSignatureBase(fields, parser, res, req) ==
    IF fields = <<>> THEN [ok |-> TRUE, err |-> "", base |-> <<>>]
    ELSE LET resolved(item, fieldParams, lcFieldName, hooked) ==
                 IF hooked.has THEN Values(hooked.v)
                 ELSE IF startsWithAt(item.name)
                 THEN deriveComponent(lcFieldName, fieldParams, res, req)
                 ELSE extractHeader(lcFieldName, fieldParams, res, req)
             value(item, fieldParams, lcFieldName) ==
                 resolved(item, fieldParams, lcFieldName,
                          IF parser THEN componentParser(lcFieldName, fieldParams, res, req)
                          ELSE Nothing)
             pushed(front, item, lcFieldName, v) ==
                 IF ~front.ok THEN front
                 ELSE IF lcFieldName = "@signature-params" THEN front
                 ELSE IF ~v.ok THEN [ok |-> FALSE, err |-> v.err, base |-> <<>>]
                 ELSE [front EXCEPT !.base = Append(@, <<serializeItem(item), v.vals>>)]
             field(front, item, lcFieldName) ==
                 pushed(front, item, lcFieldName,
                        value(item, normaliseParams(item.params), lcFieldName))
             each(front, item) == field(front, item, toLowerCase(item.name))
         IN each(createSignatureBase(SubSeq(fields, 1, Len(fields) - 1), parser, res, req),
                 parseItem(quoteString(fields[Len(fields)])))

\* formatSignatureBase: one line "identifier: value" per value of each pair,
\* the lines joined with line feeds. A pair without values leaves an empty
\* line, and so does an empty base.
Line(key, val) == [blank |-> FALSE, key |-> key, val |-> val]
BlankLine ==
    [blank |-> TRUE, key |-> serializeItem(Item("str", "", <<>>)), val |-> Text(<<>>)]

RECURSIVE formatPairs(_)
formatPairs(base) ==
    IF base = <<>> THEN <<>>
    ELSE LET quotedKey == serializeItem(parseItem(quoteString(base[1][1])))
             vals == base[1][2]
         IN (IF vals = <<>> THEN <<BlankLine>>
             ELSE [i \in 1..Len(vals) |-> Line(quotedKey, vals[i])])
            \o formatPairs(Tail(base))

\* The fault of a base that names its components and leaves their values out.
formatSignatureBaseNames(base) ==
    LET named(lines) == [i \in 1..Len(lines) |-> [lines[i] EXCEPT !.val = Text(<<>>)]]
    IN named(IF base = <<>> THEN <<BlankLine>> ELSE formatPairs(base))

formatSignatureBase(base) ==
    IF base = <<>> THEN <<BlankLine>> ELSE formatPairs(base)

SignatureParamsKey == [quoted |-> TRUE, name |-> "@signature-params", params |-> <<>>]

\* ------------------------------------------------------ values and promises
\* A JavaScript value handed around by verifyMessage: a result ("true",
\* "false", "null") or a thrown value. isError is `instanceof Error`; by is
\* the name of the label whose callback created a thrown value ("" is the
\* call itself).
Plain(v) == [val |-> v, isError |-> FALSE, by |-> ""]
ErrorOf(kind, name) == [val |-> kind, isError |-> TRUE, by |-> name]
ThrownValue(name) == [val |-> "thrown-value", isError |-> FALSE, by |-> name]

Pending == [st |-> "pending", v |-> Plain("")]
Resolved(v) == [st |-> "resolved", v |-> v]
Rejected(v) == [st |-> "rejected", v |-> v]

\* ----------------------------------------------------------------- keys
\* Buffer.toString('base64') and Buffer.from(text, 'base64') on the
\* signatures the model uses.
toBase64(bytes) ==
    CASE bytes = "S1" -> "b64-S1"
      [] bytes = "S2" -> "b64-S2"
      [] OTHER -> "b64-"
\* The fault of a signature handed to key.verify without decoding it.
fromBase64Undecoded(text) == text
fromBase64(text) ==
    CASE text = "b64-S1" -> "S1"
      [] text = "b64-S2" -> "S2"
      [] OTHER -> ""

\* The key store behind config.keyLookup: what the lookup does for the keyid
\* of the signature parameters. A key has an optional list of algorithms and
\* a verifier that answers true, false or null, rejects with an Error,
\* rejects with a value that is no Error, or accepts exactly the base and
\* signature that were signed.
Key(algs, verify) == [found |-> "key", algs |-> algs, verify |-> verify]
KeyStore(keyid) ==
    CASE keyid = "k-true" -> Key(Nothing, "true")
      [] keyid = "k-false" -> Key(Nothing, "false")
      [] keyid = "k-null" -> Key(Nothing, "null")
      [] keyid = "k-throw" -> Key(Nothing, "throw")
      [] keyid = "k-throwval" -> Key(Nothing, "throwval")
      [] keyid = "k-exact" -> Key(Nothing, "exact")
      [] keyid = "k-algs" -> Key(Some({"alg-a"}), "true")
      [] keyid = "k-lookup-throws" -> [found |-> "throws", algs |-> Nothing, verify |-> ""]
      [] OTHER -> [found |-> "null", algs |-> Nothing, verify |-> ""]

\* The parameters object built for keyLookup and key.verify: byte sequences
\* and tokens as strings, `created` and `expired` as Dates.
signatureParams(params) ==
    [i \in 1..Len(params) |->
        LET key == params[i][1]
            value == params[i][2]
        IN <<key,
             IF value.kind \in {"bytes", "tok"} THEN StrV(value.s)
             ELSE IF key = "created" \/ key = "expired"
             THEN [kind |-> "date", n |-> value.n * MsPerSecond, s |-> ""]
             ELSE value>>]

keyLookup(sp) ==
    IF ParamHas(sp, "keyid") THEN KeyStore(ParamGet(sp, "keyid").s) ELSE KeyStore("")

\* key.verify(base, signature, parameters) of a key, for the label `name`.
keyVerify(key, base, signature, sgn, name) ==
    CASE key.verify = "true" -> Resolved(Plain("true"))
      [] key.verify = "false" -> Resolved(Plain("false"))
      [] key.verify = "null" -> Resolved(Plain("null"))
      [] key.verify = "throw" -> Rejected(ErrorOf("VerifierError", name))
      [] key.verify = "throwval" -> Rejected(ThrownValue(name))
      [] OTHER -> IF sgn.done /\ base = sgn.base /\ signature = sgn.signature
                  THEN Resolved(Plain("true"))
                  ELSE Resolved(Plain("false"))

\* ------------------------------------------------- verifyMessage, per label
Floor(ms) == ms \div MsPerSecond

notAfterOf(config, now) ==
    CASE config.notAfter.kind = "date" -> Floor(config.notAfter.v)
      [] config.notAfter.kind = "number" -> config.notAfter.v
      [] OTHER -> now

toleranceOf(config) == IF config.tolerance.has THEN config.tolerance.v ELSE 0

\* The fault of a created check that leaves the tolerance out.
createdRejectedWithoutTolerance(config, input, now) ==
    /\ ParamHas(input.params, "created")
    /\ ParamGet(input.params, "created").kind = "int"
    /\ LET created == ParamGet(input.params, "created").n
       IN \/ (config.maxAge.has /\ config.maxAge.v # 0 /\ now - created > config.maxAge.v)
          \/ created > notAfterOf(config, now)

\* The created check: `(maxAge && now - created > maxAge) || created > notAfter`
\* on created - tolerance (0 is falsy, so maxAge 0 checks nothing).
createdRejected(config, input, now) ==
    /\ ParamHas(input.params, "created")
    /\ ParamGet(input.params, "created").kind = "int"
    /\ LET created == ParamGet(input.params, "created").n - toleranceOf(config)
       IN \/ (config.maxAge.has /\ config.maxAge.v # 0 /\ now - created > config.maxAge.v)
          \/ created > notAfterOf(config, now)

\* The fault of an expires check that leaves the tolerance out.
expiresRejectedWithoutTolerance(config, input, now) ==
    /\ ParamHas(input.params, "expires")
    /\ ParamGet(input.params, "expires").kind = "int"
    /\ now > ParamGet(input.params, "expires").n

\* The expires check: `now > expires` on expires + tolerance.
expiresRejected(config, input, now) ==
    /\ ParamHas(input.params, "expires")
    /\ ParamGet(input.params, "expires").kind = "int"
    /\ now > ParamGet(input.params, "expires").n + toleranceOf(config)

algRejected(input, key) ==
    /\ ParamHas(input.params, "alg")
    /\ key.algs.has
    /\ ~(ParamGet(input.params, "alg").kind = "str"
         /\ ParamGet(input.params, "alg").s \in key.algs.v)

hasRequiredParams(config, input) ==
    \A param \in config.requiredParams : ParamHas(input.params, param)

hasRequiredFields(config, input) ==
    \A field \in config.requiredFields :
        \E i \in 1..Len(input.items) :
            input.items[i].kind = "str" /\ input.items[i].name = field

\* The fault of a verifier that leaves the requiredFields check out.
labelChecksWithoutFields(config, input, key, now) ==
    IF algRejected(input, key) THEN "UnsupportedAlgorithmError"
    ELSE IF ~input.inner THEN "MalformedSignatureError"
    ELSE IF ~hasRequiredParams(config, input) THEN "UnacceptableSignatureError"
    ELSE IF createdRejected(config, input, now) THEN "ExpiredError"
    ELSE IF expiresRejected(config, input, now) THEN "ExpiredError"
    ELSE ""

\* The checks of a label that has a key, in the order of the code: the error
\* thrown, or "" when the label goes on to its base.
labelChecks(config, input, key, now) ==
    IF algRejected(input, key) THEN "UnsupportedAlgorithmError"
    ELSE IF ~input.inner THEN "MalformedSignatureError"
    ELSE IF ~hasRequiredParams(config, input) THEN "UnacceptableSignatureError"
    ELSE IF ~hasRequiredFields(config, input) THEN "UnacceptableSignatureError"
    ELSE IF createdRejected(config, input, now) THEN "ExpiredError"
    ELSE IF expiresRejected(config, input, now) THEN "ExpiredError"
    ELSE ""

\* The base text rebuilt for a label: the component lines and the
\* "@signature-params" line with the label's inner list re-serialised.
verifyBase(config, input, message, req) ==
    LET fields == [i \in 1..Len(input.items) |-> serializeItem(input.items[i])]
        formatted(signingBase) ==
            IF ~signingBase.ok THEN [ok |-> FALSE, err |-> signingBase.err, text |-> <<>>]
            ELSE [ok |-> TRUE, err |-> "",
                  text |-> formatSignatureBase(
                      Append(signingBase.base,
                             <<SignatureParamsKey, <<ListText(serializeInnerList(input))>>>>))]
    IN formatted(createSignatureBase(fields, config.parser, message, req))

\* The Signature member of a label: the error thrown, or "".
signatureChecks(signatures, name) ==
    IF ~DictHas(signatures, name) THEN "MalformedSignatureError"
    ELSE IF DictGet(signatures, name).inner \/ DictGet(signatures, name).v.kind # "bytes"
    THEN "MalformedSignatureError"
    ELSE ""

\* ------------------------------------------------------------------ state
VARIABLES
    clock,            \* Date.now(), in milliseconds
    signConfig,       \* the SignConfig of the signMessage call, if there is one
    signed,           \* what key.sign was handed and what it returned
    tampered,         \* what was replaced in the signed message on its way
    config,           \* the VerifyConfig
    message,          \* the message handed to verifyMessage
    req,              \* the request a response is bound to, or NoRequest
    pc,               \* where the sign / verify calls stand
    now,              \* `now` of verifyMessage, in seconds
    signatures,       \* the parsed Signature dictionary
    signatureInputs,  \* the parsed Signature-Input dictionary
    lstate,           \* per label: "new", "awaiting", "verifying", "settled"
    settled,          \* per label: the promise its reduce callback returned
    lookupCalls,      \* the labels keyLookup was invoked for, in order
    verifyCalls,      \* the key.verify invocations, in order
    outcome           \* the promise verifyMessage returned

signVars == <<signConfig, signed, tampered>>
callVars == <<clock, config, req>>
verifyVars == <<now, signatures, signatureInputs, lstate, settled, lookupCalls,
                verifyCalls, outcome>>
vars == <<clock, signConfig, signed, tampered, config, message, req, pc, now,
          signatures, signatureInputs, lstate, settled, lookupCalls, verifyCalls,
          outcome>>

NumLabels == Len(signatureInputs)

\* ------------------------------------------------------------ verifyMessage
LastHeaderIndex(headers, lname) ==
    IF \E i \in 1..Len(headers) : toLowerCase(headers[i].name) = lname
    THEN CHOOSE i \in 1..Len(headers) :
             /\ toLowerCase(headers[i].name) = lname
             /\ \A j \in (i + 1)..Len(headers) : toLowerCase(headers[j].name) # lname
    ELSE 0

\* The dictionary text a header holds (its values joined), which parses
\* unless it is character text.
HeaderDictText(headers, lname) ==
    LET at == LastHeaderIndex(headers, lname)
    IN IF at = 0 THEN [present |-> FALSE, ok |-> TRUE, wire |-> <<>>]
       ELSE LET text == join(headers[at].value)
            IN [present |-> TRUE, ok |-> text.s = <<>>, wire |-> text.d]

\* The fault of a verifier for which one header without the other is no
\* signature at all.
verifyHeadersIncompleteAsNone(msg) ==
    LET parsed(sig, inp, sigs, inps) ==
            [signatures |-> sigs, signatureInputs |-> inps,
             early |-> IF ~sig.ok \/ ~inp.ok THEN Rejected(ErrorOf("ParseError", ""))
                       ELSE IF sigs = <<>> \/ inps = <<>> THEN Resolved(Plain("null"))
                       ELSE Pending]
        texts(sig, inp) == parsed(sig, inp, parseDictionary(sig.wire), parseDictionary(inp.wire))
    IN texts(HeaderDictText(msg.headers, "signature"),
             HeaderDictText(msg.headers, "signature-input"))

\* Lines 343-370: the two headers are parsed; no signature at all is the
\* indeterminate result, one header without the other an error.
verifyHeaders(msg) ==
    LET parsed(sig, inp, sigs, inps) ==
            [signatures |-> sigs, signatureInputs |-> inps,
             early |-> IF ~sig.ok \/ ~inp.ok THEN Rejected(ErrorOf("ParseError", ""))
                       ELSE IF sigs = <<>> /\ inps = <<>> THEN Resolved(Plain("null"))
                       ELSE IF sigs = <<>> \/ inps = <<>> THEN Rejected(ErrorOf("Error", ""))
                       ELSE Pending]
        texts(sig, inp) == parsed(sig, inp, parseDictionary(sig.wire), parseDictionary(inp.wire))
    IN texts(HeaderDictText(msg.headers, "signature"),
             HeaderDictText(msg.headers, "signature-input"))

VerifyStart ==
    /\ pc = "start"
    /\ LET enter(headers) ==
               /\ signatures' = headers.signatures
               /\ signatureInputs' = headers.signatureInputs
               /\ lstate' = [i \in 1..Len(headers.signatureInputs) |-> "new"]
               /\ settled' = [i \in 1..Len(headers.signatureInputs) |-> Pending]
               /\ outcome' = headers.early
               /\ pc' = IF headers.early.st = "pending" THEN "reduce" ELSE "done"
       IN enter(verifyHeaders(message))
    /\ now' = Floor(clock)
    /\ UNCHANGED <<signVars, callVars, message, lookupCalls, verifyCalls>>

\* The fault of a verifier that looks up the key of the first label only.
ReduceCallbackFirstLookup(k) ==
    /\ pc = "reduce"
    /\ k \in 1..NumLabels
    /\ lstate[k] = "new"
    /\ \A j \in 1..(k - 1) : lstate[j] # "new"
    /\ lookupCalls' = IF k = 1 THEN Append(lookupCalls, k) ELSE lookupCalls
    /\ lstate' = [lstate EXCEPT ![k] = "awaiting"]
    /\ pc' = IF k = NumLabels THEN "await" ELSE "reduce"
    /\ UNCHANGED <<signVars, callVars, message, now, signatures, signatureInputs,
                   settled, verifyCalls, outcome>>

\* Lines 371-395, up to the await: the reduce runs the callback of every
\* label in order, and each builds its parameters and invokes keyLookup
\* before it suspends.
ReduceCallback(k) ==
    /\ pc = "reduce"
    /\ k \in 1..NumLabels
    /\ lstate[k] = "new"
    /\ \A j \in 1..(k - 1) : lstate[j] # "new"
    /\ lookupCalls' = Append(lookupCalls, k)
    /\ lstate' = [lstate EXCEPT ![k] = "awaiting"]
    /\ pc' = IF k = NumLabels THEN "await" ELSE "reduce"
    /\ UNCHANGED <<signVars, callVars, message, now, signatures, signatureInputs,
                   settled, verifyCalls, outcome>>

lookupOf(cfg, input) ==
    IF cfg.keyLookup = "exact" THEN Key(Nothing, "exact")
    ELSE keyLookup(signatureParams(input.params))

\* Promise.all rejects as soon as keyLookup rejects, whatever the earlier
\* labels are doing.
LookupRejects(i) ==
    /\ pc = "await"
    /\ i \in 1..NumLabels
    /\ lstate[i] = "awaiting"
    /\ lookupOf(config, signatureInputs[i]).found = "throws"
    /\ settled' = [settled EXCEPT ![i] =
                      Rejected(ErrorOf("LookupError", signatureInputs[i].name))]
    /\ lstate' = [lstate EXCEPT ![i] = "settled"]
    /\ UNCHANGED <<signVars, callVars, message, pc, now, signatures, signatureInputs,
                   lookupCalls, verifyCalls, outcome>>

\* Lines 402-405, a label without a key when `all` is not set: the caught
\* value of the promise before it is thrown again if it is an Error, and
\* returned otherwise.
\* The fault of a label without a key that answers null whatever came before.
passOnNothing(result) == Resolved(Plain("null"))
passOn(result) == IF result.isError THEN Rejected(result) ELSE Resolved(result)

\* Lines 396-449: the callback of a label after its await, given the value
\* `result` of the previous promise (its rejection caught) and the key.
\* It returns the settled promise, or invokes key.verify.
afterAwait(cfg, input, result, key, sigs, msg, rq, nowSec) ==
    LET Settle(p) == [verify |-> FALSE, promise |-> p, base |-> <<>>, signature |-> ""]
        step(failed, base, sigFailed) ==
            IF cfg.all /\ key.found = "null"
            THEN Settle(Rejected(ErrorOf("UnknownKeyError", input.name)))
            ELSE IF key.found = "null"
            THEN Settle(passOn(result))
            ELSE IF failed # "" THEN Settle(Rejected(ErrorOf(failed, input.name)))
            ELSE IF ~base.ok THEN Settle(Rejected(ErrorOf(base.err, input.name)))
            ELSE IF sigFailed # "" THEN Settle(Rejected(ErrorOf(sigFailed, input.name)))
            ELSE [verify |-> TRUE, promise |-> Pending, base |-> base.text,
                  signature |-> fromBase64(DictGet(sigs, input.name).v.s)]
    IN step(labelChecks(cfg, input, key, nowSec), verifyBase(cfg, input, msg, rq),
            signatureChecks(sigs, input.name))

Continue(i) ==
    /\ pc = "await"
    /\ i \in 1..NumLabels
    /\ lstate[i] = "awaiting"
    /\ i > 1 => settled[i - 1].st # "pending"
    /\ lookupOf(config, signatureInputs[i]).found # "throws"
    /\ LET input == signatureInputs[i]
           result == IF i = 1 THEN Plain("null") ELSE settled[i - 1].v
           key == lookupOf(config, input)
           resume(step) ==
               IF step.verify
               THEN /\ verifyCalls' =
                           Append(verifyCalls,
                                  [label |-> i, base |-> step.base,
                                   signature |-> step.signature])
                    /\ lstate' = [lstate EXCEPT ![i] = "verifying"]
                    /\ UNCHANGED settled
               ELSE /\ settled' = [settled EXCEPT ![i] = step.promise]
                    /\ lstate' = [lstate EXCEPT ![i] = "settled"]
                    /\ UNCHANGED verifyCalls
       IN resume(afterAwait(config, input, result, key, signatures, message, req, now))
    /\ UNCHANGED <<signVars, callVars, message, pc, now, signatures, signatureInputs,
                   lookupCalls, outcome>>

CallOf(i) == verifyCalls[CHOOSE c \in 1..Len(verifyCalls) : verifyCalls[c].label = i]

\* key.verify settles, and the callback's promise with it.
VerifySettles(i) ==
    /\ pc = "await"
    /\ i \in 1..NumLabels
    /\ lstate[i] = "verifying"
    /\ settled' = [settled EXCEPT ![i] =
                      keyVerify(lookupOf(config, signatureInputs[i]), CallOf(i).base,
                                CallOf(i).signature, signed, signatureInputs[i].name)]
    /\ lstate' = [lstate EXCEPT ![i] = "settled"]
    /\ UNCHANGED <<signVars, callVars, message, pc, now, signatures, signatureInputs,
                   lookupCalls, verifyCalls, outcome>>

\* The promise of the last label is the promise verifyMessage returned.
Finish ==
    /\ pc = "await"
    /\ outcome.st = "pending"
    /\ settled[NumLabels].st # "pending"
    /\ outcome' = settled[NumLabels]
    /\ UNCHANGED <<signVars, callVars, message, pc, now, signatures, signatureInputs,
                   lstate, settled, lookupCalls, verifyCalls>>

\* The promise the reduce of lines 371-450 ends with, and with it the call:
\* each callback awaits the caught value of the promise before it and its
\* own keyLookup, and returns what the code after the await makes of them.
RECURSIVE reduceResult(_, _, _, _, _, _, _)
reduceResult(cfg, inps, sigs, msg, rq, nowSec, sgn) ==
    IF inps = <<>> THEN Resolved(Plain("null"))
    ELSE LET input == inps[Len(inps)]
             verified(key, step) ==
                 IF step.verify
                 THEN keyVerify(key, step.base, step.signature, sgn, input.name)
                 ELSE step.promise
             callback(prev, key) ==
                 IF key.found = "throws" THEN Rejected(ErrorOf("LookupError", input.name))
                 ELSE verified(key, afterAwait(cfg, input, prev.v, key, sigs, msg, rq, nowSec))
         IN callback(reduceResult(cfg, SubSeq(inps, 1, Len(inps) - 1), sigs, msg, rq,
                                  nowSec, sgn),
                     lookupOf(cfg, input))

verifyMessage(cfg, msg, rq, nowMs, sgn) ==
    LET result(headers) ==
            IF headers.early.st # "pending" THEN headers.early
            ELSE reduceResult(cfg, headers.signatureInputs, headers.signatures, msg, rq,
                              Floor(nowMs), sgn)
    IN result(verifyHeaders(msg))

\* -------------------------------------------------------------- signMessage
defaultParams == <<"keyid", "alg", "created", "expires">>

\* A timestamp of paramValues: kind "undefined", "null" or "date" (ms).
Undefined == [kind |-> "undefined", ms |-> 0]
Null == [kind |-> "null", ms |-> 0]
Date(ms) == [kind |-> "date", ms |-> ms]

\* The fault of a signer that takes the clock for `created` whatever
\* paramValues says.
signingValueOfClock(cfg, paramName, nowMs) ==
    LET pv == cfg.paramValues
        lower == toLowerCase(paramName)
        createdMs == nowMs
    IN CASE lower = "created" ->
              IF pv.created.kind # "null" THEN IntV(Floor(createdMs)) ELSE StrV("")
         [] lower = "expires" ->
              IF pv.expires.kind = "date" \/ pv.created.kind # "null"
              THEN IntV(Floor(IF pv.expires.kind = "date" THEN pv.expires.ms
                              ELSE createdMs + DefaultExpiryMs))
              ELSE StrV("")
         [] lower = "keyid" ->
              StrV(IF pv.keyid # "" THEN pv.keyid ELSE cfg.key.id)
         [] lower = "alg" ->
              StrV(IF pv.alg # "" THEN pv.alg ELSE cfg.key.alg)
         [] lower = "nonce" -> StrV(pv.nonce)
         [] lower = "issued" ->
              IF pv.issued.kind = "date" THEN IntV(Floor(pv.issued.ms)) ELSE StrV("")
         [] OTHER -> StrV("")

\* The value createSigningParameters computes for one parameter name; ''
\* (and 0) is falsy and leaves the parameter out. A string option that is
\* not given is "".
signingValue(cfg, paramName, nowMs) ==
    LET pv == cfg.paramValues
        lower == toLowerCase(paramName)
        createdMs == IF pv.created.kind = "date" THEN pv.created.ms ELSE nowMs
    IN CASE lower = "created" ->
              IF pv.created.kind # "null" THEN IntV(Floor(createdMs)) ELSE StrV("")
         [] lower = "expires" ->
              IF pv.expires.kind = "date" \/ pv.created.kind # "null"
              THEN IntV(Floor(IF pv.expires.kind = "date" THEN pv.expires.ms
                              ELSE createdMs + DefaultExpiryMs))
              ELSE StrV("")
         [] lower = "keyid" ->
              StrV(IF pv.keyid # "" THEN pv.keyid ELSE cfg.key.id)
         [] lower = "alg" ->
              StrV(IF pv.alg # "" THEN pv.alg ELSE cfg.key.alg)
         [] lower = "nonce" -> StrV(pv.nonce)
         [] lower = "issued" ->
              IF pv.issued.kind = "date" THEN IntV(Floor(pv.issued.ms)) ELSE StrV("")
         [] OTHER -> StrV("")

Falsy(v) == (v.kind = "int" /\ v.n = 0) \/ (v.kind = "str" /\ v.s = "")

RECURSIVE signingParametersOf(_, _, _)
signingParametersOf(cfg, names, nowMs) ==
    IF names = <<>> THEN <<>>
    ELSE LET front == signingParametersOf(cfg, SubSeq(names, 1, Len(names) - 1), nowMs)
             paramName == names[Len(names)]
             value == signingValue(cfg, paramName, nowMs)
         IN IF Falsy(value) THEN front ELSE MapSet(front, paramName, value)

createSigningParameters(cfg, nowMs) ==
    signingParametersOf(cfg, IF cfg.params.has THEN cfg.params.v ELSE defaultParams, nowMs)

\* `${signatureName}${count}` on the labels the model uses.
withCount(name, count) ==
    CASE name = "sig" /\ count = 0 -> "sig0"
      [] name = "sig" /\ count = 1 -> "sig1"
      [] name = "sig" /\ count = 2 -> "sig2"
      [] name = "mine" /\ count = 0 -> "mine0"
      [] name = "mine" /\ count = 1 -> "mine1"
      [] OTHER -> "other"

RECURSIVE freeCount(_, _, _, _)
freeCount(sigs, inps, name, count) ==
    IF DictHas(sigs, withCount(name, count)) \/ DictHas(inps, withCount(name, count))
    THEN freeCount(sigs, inps, name, count + 1)
    ELSE count

\* The fault of a signer that takes the first numbered name without looking.
uniqueNameFirstCount(sigs, inps, name) ==
    IF DictHas(sigs, name) \/ DictHas(inps, name)
    THEN withCount(name, 0)
    ELSE name

uniqueName(sigs, inps, name) ==
    IF DictHas(sigs, name) \/ DictHas(inps, name)
    THEN withCount(name, freeCount(sigs, inps, name, 0))
    ELSE name

\* The fault of headers written back under their lower-case names.
SetHeaderLowerCase(headers, name, parts) ==
    IF \E i \in 1..Len(headers) : headers[i].name = toLowerCase(name)
    THEN [i \in 1..Len(headers) |->
             IF headers[i].name = toLowerCase(name) THEN Header(toLowerCase(name), parts)
             ELSE headers[i]]
    ELSE Append(headers, Header(toLowerCase(name), parts))

\* {...headers, [name]: value}: an existing key keeps its place.
SetHeader(headers, name, parts) ==
    IF \E i \in 1..Len(headers) : headers[i].name = name
    THEN [i \in 1..Len(headers) |->
             IF headers[i].name = name THEN Header(name, parts) ELSE headers[i]]
    ELSE Append(headers, Header(name, parts))

\* augmentHeaders: the new member is added to both dictionaries under a name
\* neither uses yet, and each is written back under the header name in use.
augmentHeaders(headers, signature, signatureInput, name) ==
    LET sigAt == LastHeaderIndex(headers, "signature")
        inpAt == LastHeaderIndex(headers, "signature-input")
        signatureHeaderName == IF sigAt = 0 THEN "Signature" ELSE headers[sigAt].name
        signatureInputHeaderName ==
            IF inpAt = 0 THEN "Signature-Input" ELSE headers[inpAt].name
        sigText == HeaderDictText(headers, "signature")
        inpText == HeaderDictText(headers, "signature-input")
        signatureHeader == parseDictionary(sigText.wire)
        inputHeader == parseDictionary(inpText.wire)
        signatureName == uniqueName(signatureHeader, inputHeader,
                                    IF name = "" THEN "sig" ELSE name)
        newSignatures ==
            DictSet(signatureHeader,
                    ItemMember(signatureName, BytesV(toBase64(signature)), <<>>))
        newInputs == DictSet(inputHeader, parseListMember(signatureInput, signatureName))
    IN [ok |-> sigText.ok /\ inpText.ok,
        name |-> signatureName,
        headers |->
            SetHeader(SetHeader(headers, signatureHeaderName,
                                <<DictText(serializeDictionary(newSignatures))>>),
                      signatureInputHeaderName,
                      <<DictText(serializeDictionary(newInputs))>>)]

\* The fault of a signer that puts the "@signature-params" pair first.
signingPlanParamsFirst(cfg, msg, rq, nowMs) ==
    LET covered(base) == [i \in 1..Len(base) |-> parseItem(base[i][1])]
        planned(signatureBase, signatureInput, keysOk) ==
            [ok |-> signatureBase.ok /\ keysOk,
             signatureInput |-> signatureInput,
             base |-> formatSignatureBase(
                          <<<<SignatureParamsKey, <<ListText(signatureInput)>>>>>>
                          \o signatureBase.base)]
        based(signingParameters, signatureBase) ==
            planned(signatureBase,
                    serializeInnerList(
                        InnerList("", covered(signatureBase.base), signingParameters)),
                    \A k \in ParamKeys(signingParameters) : toLowerCase(k) = k)
    IN based(createSigningParameters(cfg, nowMs),
             createSignatureBase(cfg.fields, cfg.parser, msg, rq))

\* Lines 318-330: the parameters, the base pairs, the Signature-Input text
\* and the base text of a signMessage call.
signingPlan(cfg, msg, rq, nowMs) ==
    LET covered(base) == [i \in 1..Len(base) |-> parseItem(base[i][1])]
        planned(signatureBase, signatureInput, keysOk) ==
            [ok |-> signatureBase.ok /\ keysOk,
             signatureInput |-> signatureInput,
             base |-> formatSignatureBase(
                          Append(signatureBase.base,
                                 <<SignatureParamsKey, <<ListText(signatureInput)>>>>))]
        based(signingParameters, signatureBase) ==
            planned(signatureBase,
                    serializeInnerList(
                        InnerList("", covered(signatureBase.base), signingParameters)),
                    \A k \in ParamKeys(signingParameters) : toLowerCase(k) = k)
    IN based(createSigningParameters(cfg, nowMs),
             createSignatureBase(cfg.fields, cfg.parser, msg, rq))

NotSigned ==
    [done |-> FALSE, base |-> <<>>, signature |-> "", name |-> "",
     original |-> NoRequest, signatureInput |-> serializeInnerList(InnerList("", <<>>, <<>>))]

\* signMessage up to `await config.key.sign(...)`: a field that does not
\* resolve, or a parameter name the serialiser refuses, fails the call.
SignStart ==
    /\ pc = "sign"
    /\ LET start(plan) ==
               IF plan.ok
               THEN /\ signed' = [signed EXCEPT !.base = plan.base,
                                                !.signatureInput = plan.signatureInput]
                    /\ pc' = "signing"
               ELSE /\ signed' = signed
                    /\ pc' = "sign-failed"
       IN start(signingPlan(signConfig, message, req, clock))
    /\ UNCHANGED <<signConfig, tampered, callVars, message, verifyVars>>

\* The fault of a signer that writes the new headers into the message it
\* was handed.
SignSettlesInPlace ==
    /\ pc = "signing"
    /\ LET augmented == augmentHeaders(message.headers, signConfig.key.sign,
                                       signed.signatureInput, signConfig.name)
       IN IF signConfig.key.sign # "throws" /\ augmented.ok
          THEN /\ message' = [message EXCEPT !.headers = augmented.headers]
               /\ signed' = [signed EXCEPT !.done = TRUE,
                                           !.signature = signConfig.key.sign,
                                           !.name = augmented.name,
                                           !.original = message']
               /\ pc' = "transit"
          ELSE /\ UNCHANGED <<message, signed>>
               /\ pc' = "sign-failed"
    /\ UNCHANGED <<signConfig, tampered, callVars, verifyVars>>

\* key.sign settles: the signed message is the input with the augmented
\* headers, or the call fails.
SignSettles ==
    /\ pc = "signing"
    /\ LET augmented == augmentHeaders(message.headers, signConfig.key.sign,
                                       signed.signatureInput, signConfig.name)
       IN IF signConfig.key.sign # "throws" /\ augmented.ok
          THEN /\ message' = [message EXCEPT !.headers = augmented.headers]
               /\ signed' = [signed EXCEPT !.done = TRUE,
                                           !.signature = signConfig.key.sign,
                                           !.name = augmented.name]
               /\ pc' = "transit"
          ELSE /\ UNCHANGED <<message, signed>>
               /\ pc' = "sign-failed"
    /\ UNCHANGED <<signConfig, tampered, callVars, verifyVars>>

\* ------------------------------------------------------------- in transit
\* Between signing and verifying the message is delivered as it is, or one
\* thing in it is replaced: the value of a header, the method, or the wire
\* value of a parameter of the new Signature-Input member.
RawParts ==
    {<<Text(<<"a">>)>>, <<Text(<<" ", "a">>)>>, <<Text(<<"b">>)>>,
     <<Text(<<"a">>), Text(<<"b">>)>>, <<Text(<<"a", "LF", " ", "b">>)>>}

Methods == {"get", "GET", "post"}

ParamWireValues ==
    {Wire(IntV(n), pad) : n \in 1..3, pad \in {0, 1}}
    \cup {Wire(StrV(id), 0) : id \in {"k-exact", "k-true"}}

Deliver ==
    /\ pc = "transit"
    /\ pc' = "start"
    /\ UNCHANGED <<signVars, callVars, message, verifyVars>>

ReplaceHeader(h, parts) ==
    /\ pc = "transit"
    /\ h \in 1..Len(message.headers)
    /\ toLowerCase(message.headers[h].name) \notin {"signature", "signature-input"}
    /\ parts # message.headers[h].value
    /\ message' = [message EXCEPT !.headers[h].value = parts]
    /\ tampered' = "header"
    /\ pc' = "start"
    /\ UNCHANGED <<signConfig, signed, callVars, verifyVars>>

ReplaceMethod(m) ==
    /\ pc = "transit"
    /\ m # message.method
    /\ message' = [message EXCEPT !.method = m]
    /\ tampered' = "method"
    /\ pc' = "start"
    /\ UNCHANGED <<signConfig, signed, callVars, verifyVars>>

ReplaceParam(k, w) ==
    /\ pc = "transit"
    /\ LET h == LastHeaderIndex(message.headers, "signature-input")
           wire == message.headers[h].value[1].d
           at == CHOOSE i \in 1..Len(wire) : wire[i].name = signed.name
           ps == wire[at].params
       IN /\ \E j \in 1..Len(ps) : ps[j][1] = k /\ ps[j][2] # w /\ ps[j][2].kind = w.kind
          /\ message' =
                 [message EXCEPT !.headers[h].value[1].d[at].params =
                     [j \in 1..Len(ps) |-> IF ps[j][1] = k THEN <<k, w>> ELSE ps[j]]]
    /\ tampered' = "param"
    /\ pc' = "start"
    /\ UNCHANGED <<signConfig, signed, callVars, verifyVars>>

\* ------------------------------------------------- cavage: verifyMessage
\* An entry of the header text is `key=value`: the key as written, the words
\* of the value (the value split on spaces) and whether it stands in double
\* quotes. parseInt reads the decimal text of the first seconds.
parseInt(word) ==
    CASE word = "0" -> 0 [] word = "1" -> 1 [] word = "2" -> 2 [] word = "3" -> 3
      [] word = "4" -> 4 [] word = "5" -> 5 [] word = "6" -> 6 [] word = "7" -> 7
      [] word = "8" -> 8 [] OTHER -> 9
\* The decimal text of a number of seconds.
decimal(n) ==
    CASE n = 0 -> "0" [] n = 1 -> "1" [] n = 2 -> "2" [] n = 3 -> "3" [] n = 4 -> "4"
      [] n = 5 -> "5" [] n = 6 -> "6" [] n = 7 -> "7" [] n = 8 -> "8" [] OTHER -> "9"

\* Lines 208-223: the entries become a Map from key to value, `created` and
\* `expires` (in any case) read as integers; a repeated key is an error.
RECURSIVE cavageParsedHeader(_)
cavageParsedHeader(entries) ==
    IF entries = <<>> THEN [ok |-> TRUE, parts |-> <<>>]
    ELSE LET put(front, e) ==
                 IF ~front.ok \/ ParamHas(front.parts, e.key)
                 THEN [ok |-> FALSE, parts |-> <<>>]
                 ELSE [ok |-> TRUE,
                       parts |-> Append(front.parts,
                           <<e.key,
                             IF toLowerCase(e.key) \in {"created", "expires"}
                             THEN [kind |-> "int", n |-> parseInt(e.words[1]), words |-> <<>>]
                             ELSE [kind |-> "str", n |-> 0, words |-> e.words]>>)]
         IN put(cavageParsedHeader(SubSeq(entries, 1, Len(entries) - 1)),
                entries[Len(entries)])

\* Line 228: `(name)` is the component `@name`.
cavageComponent(word) ==
    CASE word = "(created)" -> "@created"
      [] word = "(expires)" -> "@expires"
      [] word = "(request-target)" -> "@request-target"
      [] OTHER -> toLowerCase(word)

\* cavage extractHeader: the values of the header, trimmed, unfolded and
\* joined.
cavageExtractHeader(header, msg) ==
    LET at == HeaderIndex(msg.headers, header)
        values == msg.headers[at].value
    IN IF at = 0 THEN Throws("Error")
       ELSE Values(<<join([i \in 1..Len(values) |->
                             [values[i] EXCEPT !.s = unfold(trim(values[i].s))]])>>)

\* cavage createSignatureBase: one pair per field, in the order of the fields.
RECURSIVE cavageCreateSignatureBase(_, _, _)
cavageCreateSignatureBase(fields, msg, signingParameters) ==
    IF fields = <<>> THEN [ok |-> TRUE, base |-> <<>>]
    ELSE LET lcFieldName == fields[Len(fields)]
             timeText(name) == Text(<<decimal(ParamGet(signingParameters, name).n)>>)
             pushed(front, header) ==
                 IF ~front.ok THEN front
                 ELSE CASE lcFieldName = "@created" ->
                             IF ParamHas(signingParameters, "created")
                             THEN [front EXCEPT !.base = Append(@, <<"(created)", timeText("created")>>)]
                             ELSE front
                        [] lcFieldName = "@expires" ->
                             IF ParamHas(signingParameters, "expires")
                             THEN [front EXCEPT !.base = Append(@, <<"(expires)", timeText("expires")>>)]
                             ELSE front
                        [] lcFieldName = "@request-target" ->
                             IF ~isRequest(msg) THEN [ok |-> FALSE, base |-> <<>>]
                             ELSE [front EXCEPT !.base =
                                      Append(@, <<"(request-target)",
                                             Text(<<toLowerCase(msg.method), " ",
                                                    msg.url.pathname, msg.url.search>>)>>)]
                        [] OTHER ->
                             IF ~header.ok THEN [ok |-> FALSE, base |-> <<>>]
                             ELSE [front EXCEPT !.base = Append(@, <<lcFieldName, header.vals[1]>>)]
         IN pushed(cavageCreateSignatureBase(SubSeq(fields, 1, Len(fields) - 1), msg,
                                             signingParameters),
                   cavageExtractHeader(lcFieldName, msg))

\* cavage formatSignatureBase: one line `key: value` per pair, a component
\* `@name` written `(name)`.
cavageFormatSignatureBase(base) ==
    [i \in 1..Len(base) |-> [key |-> toLowerCase(base[i][1]), val |-> base[i][2]]]

mapCavageAlgorithm(alg) ==
    CASE alg = "hs2019" -> "rsa-pss-sha512"
      [] alg = "rsa-sha1" -> "rsa-v1_5-sha1"
      [] alg = "rsa-sha256" -> "rsa-v1_5-sha256"
      [] alg = "ecdsa-sha256" -> "ecdsa-p256-sha256"
      [] OTHER -> alg

\* Lines 268-298: the parameters handed to keyLookup and key.verify.
RECURSIVE cavageParams(_)
cavageParams(parts) ==
    IF parts = <<>> THEN <<>>
    ELSE LET key == toLowerCase(parts[Len(parts)][1])
             value == parts[Len(parts)][2]
             front == cavageParams(SubSeq(parts, 1, Len(parts) - 1))
         IN CASE key \in {"created", "expires"} ->
                   MapSet(front, parts[Len(parts)][1],
                          [kind |-> "date", n |-> value.n * MsPerSecond, s |-> ""])
              [] key \in {"signature", "headers"} -> front
              [] key = "algorithm" -> MapSet(front, "alg", StrV(mapCavageAlgorithm(value.words[1])))
              [] key = "keyid" -> MapSet(front, "keyid", StrV(value.words[1]))
              [] OTHER -> MapSet(front, parts[Len(parts)][1], StrV(value.words[1]))

\* new Map(pairs): the keys in order of first appearance, a repeated key
\* keeping its last value.
RECURSIVE cavageMap(_)
cavageMap(pairs) ==
    IF pairs = <<>> THEN <<>>
    ELSE MapSet(cavageMap(SubSeq(pairs, 1, Len(pairs) - 1)),
                pairs[Len(pairs)][1], pairs[Len(pairs)][2])

\* Lines 204-266: what verifyMessage does before it awaits keyLookup. It
\* resolves to null or false, throws, or goes on with the parameters, the
\* base and the signature.
cavageBeforeLookup(cfg, msg, nowSec) ==
    LET at == HeaderIndex(msg.headers, "signature")
        stop(promise) == [lookup |-> FALSE, promise |-> promise, params |-> <<>>,
                          base |-> <<>>, signature |-> ""]
        error == stop(Rejected(ErrorOf("Error", "")))
        false == stop(Resolved(Plain("false")))
        tolerance == toleranceOf(cfg)
        notAfter == notAfterOf(cfg, nowSec)
        checked(parts, made) ==
            LET hasRequiredParams_ ==
                    \A param \in cfg.requiredParams : ParamHas(made.base, param)
                hasRequiredFields_ ==
                    \A field \in cfg.requiredFields :
                        ParamHas(parts,
                                 CASE toLowerCase(field) = "@created" -> "(created)"
                                   [] toLowerCase(field) = "@expires" -> "(expires)"
                                   [] toLowerCase(field) = "@request-target" -> "(request-target)"
                                   [] OTHER -> toLowerCase(field))
                created == ParamGet(parts, "created").n - tolerance
                expires == ParamGet(parts, "expires").n + tolerance
            IN IF ~made.ok THEN error
               ELSE IF ~hasRequiredParams_ THEN false
               ELSE IF ~hasRequiredFields_ THEN false
               ELSE IF ParamHas(parts, "created")
                       /\ \/ (cfg.maxAge.has /\ cfg.maxAge.v # 0
                              /\ created - nowSec > cfg.maxAge.v)
                          \/ created > notAfter
               THEN false
               ELSE IF ParamHas(parts, "expires") /\ expires > nowSec THEN false
               ELSE [lookup |-> TRUE, promise |-> Pending, params |-> cavageParams(parts),
                     base |-> cavageFormatSignatureBase(made.base),
                     signature |-> fromBase64(ParamGet(parts, "signature").words[1])]
        baseParts(made) == [made EXCEPT !.base = cavageMap(@)]
        parsed(header) ==
            IF ~header.ok THEN error
            ELSE IF ~ParamHas(header.parts, "signature") THEN error
            ELSE checked(header.parts,
                         baseParts(cavageCreateSignatureBase(
                             IF ParamHas(header.parts, "headers")
                                /\ ParamGet(header.parts, "headers").words # <<>>
                             THEN [i \in 1..Len(ParamGet(header.parts, "headers").words) |->
                                      cavageComponent(ParamGet(header.parts, "headers").words[i])]
                             ELSE <<"">>,
                             msg, header.parts)))
    IN IF at = 0 THEN stop(Resolved(Plain("null")))
       ELSE parsed(cavageParsedHeader(join(msg.headers[at].value).c))

\* cavage verifyMessage up to `await config.keyLookup(params)`.
CavageStart ==
    /\ pc = "cavage"
    /\ LET nowSec == Floor(clock)
           step(before) ==
               /\ pc' = IF before.lookup THEN "cavage-lookup" ELSE "cavage-done"
               /\ outcome' = before.promise
               /\ lookupCalls' = IF before.lookup THEN Append(lookupCalls, 1) ELSE lookupCalls
       IN /\ now' = nowSec
          /\ step(cavageBeforeLookup(config, message, nowSec))
    /\ UNCHANGED <<signVars, clock, config, message, req, signatures, signatureInputs,
                   lstate, settled, verifyCalls>>

\* keyLookup settles: a rejection is the outcome, no key is null, and a key
\* is asked to verify.
CavageLookupSettles ==
    /\ pc = "cavage-lookup"
    /\ LET step(before, key) ==
               IF key.found = "throws"
               THEN /\ outcome' = Rejected(ErrorOf("LookupError", ""))
                    /\ pc' = "cavage-done"
                    /\ UNCHANGED verifyCalls
               ELSE IF key.found = "null"
               THEN /\ outcome' = Resolved(Plain("null"))
                    /\ pc' = "cavage-done"
                    /\ UNCHANGED verifyCalls
               ELSE /\ verifyCalls' = Append(verifyCalls,
                                             [label |-> 1, base |-> before.base,
                                              signature |-> before.signature])
                    /\ pc' = "cavage-verify"
                    /\ UNCHANGED outcome
           head(before) == step(before, keyLookup(before.params))
       IN head(cavageBeforeLookup(config, message, now))
    /\ UNCHANGED <<signVars, clock, config, message, req, now, signatures,
                   signatureInputs, lstate, settled, lookupCalls>>

\* key.verify settles: its answer, null for a nullish one, is the outcome.
CavageVerifySettles ==
    /\ pc = "cavage-verify"
    /\ LET settle(key) ==
               outcome' = keyVerify(key, verifyCalls[1].base, verifyCalls[1].signature,
                                    signed, "")
       IN settle(keyLookup(cavageBeforeLookup(config, message, now).params))
    /\ pc' = "cavage-done"
    /\ UNCHANGED <<signVars, clock, config, message, req, now, signatures,
                   signatureInputs, lstate, settled, lookupCalls, verifyCalls>>

\* --------------------------------------------------- cavage: signMessage
mapHttpbisAlgorithm(alg) ==
    CASE alg = "rsa-pss-sha512" -> "hs2019"
      [] alg = "rsa-v1_5-sha1" -> "rsa-sha1"
      [] alg = "rsa-v1_5-sha256" -> "rsa-sha256"
      [] alg = "ecdsa-p256-sha256" -> "ecdsa-sha256"
      [] OTHER -> alg

\* Lines 172-174: the parameters, the base pairs and the base text of a
\* cavage signMessage call; a field with parameters, a header that is
\* missing or the target of a response fails the call. Only `created` and
\* `expires` are numbers among the parameters.
cavageSigningPlan(cfg, msg, nowMs) ==
    LET fields == [i \in 1..Len(cfg.fields) |-> toLowerCase(cfg.fields[i].name)]
        planned(signingParameters, signatureBase) ==
            [ok |-> signatureBase.ok /\ \A i \in 1..Len(cfg.fields) : cfg.fields[i].params = <<>>,
             params |-> signingParameters,
             headerNames |-> [i \in 1..Len(signatureBase.base) |-> signatureBase.base[i][1]],
             base |-> cavageFormatSignatureBase(signatureBase.base)]
        based(signingParameters) ==
            planned(signingParameters,
                    cavageCreateSignatureBase(fields, msg, signingParameters))
    IN based(createSigningParameters(cfg, nowMs))

\* Lines 177-193: the text of the Signature header.
cavageSignatureHeader(signingParameters, headerNames, signature) ==
    [i \in 1..Len(signingParameters) |->
        LET name == signingParameters[i][1]
            value == signingParameters[i][2]
        IN IF name = "alg" THEN CavageEntry("algorithm", <<mapHttpbisAlgorithm(value.s)>>, TRUE)
           ELSE IF name = "keyid" THEN CavageEntry("keyId", <<value.s>>, TRUE)
           ELSE IF value.kind = "int" /\ toLowerCase(name) \in {"created", "expires"}
           THEN CavageEntry(name, <<decimal(value.n)>>, FALSE)
           ELSE IF value.kind = "int" THEN CavageEntry(name, <<decimal(value.n)>>, TRUE)
           ELSE CavageEntry(name, <<value.s>>, TRUE)]
    \o <<CavageEntry("headers", headerNames, TRUE),
         CavageEntry("signature", <<toBase64(signature)>>, TRUE)>>

\* cavage signMessage up to `await config.key.sign(...)`.
CavageSignStart ==
    /\ pc = "cavage-sign"
    /\ LET start(plan) ==
               IF plan.ok
               THEN /\ signed' = [signed EXCEPT !.base = plan.base]
                    /\ pc' = "cavage-signing"
               ELSE /\ signed' = signed
                    /\ pc' = "cavage-sign-failed"
       IN start(cavageSigningPlan(signConfig, message, clock))
    /\ UNCHANGED <<signConfig, tampered, callVars, message, verifyVars>>

\* key.sign settles: the signed message is the input with the header
\* `Signature` set, or the call fails.
CavageSignSettles ==
    /\ pc = "cavage-signing"
    /\ LET settle(plan) ==
               IF signConfig.key.sign # "throws"
               THEN /\ message' =
                           [message EXCEPT !.headers =
                               SetHeader(@, "Signature",
                                   <<CavageText(cavageSignatureHeader(
                                         plan.params, plan.headerNames, signConfig.key.sign))>>)]
                    /\ signed' = [signed EXCEPT !.done = TRUE,
                                                !.signature = signConfig.key.sign]
                    /\ pc' = "cavage"
               ELSE /\ UNCHANGED <<message, signed>>
                    /\ pc' = "cavage-sign-failed"
       IN settle(cavageSigningPlan(signConfig, message, clock))
    /\ UNCHANGED <<signConfig, tampered, callVars, verifyVars>>

\* ------------------------------------------------------------ initial states
Url ==
    [protocol |-> "https:", hostname |-> "example.com", port |-> "443",
     pathname |-> "/foo", search |-> "?Pet=dog", searchParams |-> <<<<"Pet", "dog">>>>]

Request(method, headers) ==
    [present |-> TRUE, method |-> method, status |-> 0, url |-> Url, headers |-> headers]

NoSignConfig ==
    [key |-> [id |-> "", alg |-> "", sign |-> "throws"], name |-> "",
     params |-> [has |-> FALSE, v |-> <<>>], fields |-> <<>>, parser |-> FALSE,
     paramValues |-> [created |-> Undefined, expires |-> Undefined, issued |-> Undefined,
                      keyid |-> "", alg |-> "", nonce |-> ""]]

DefaultVerifyConfig ==
    [keyLookup |-> "store", all |-> FALSE, tolerance |-> Nothing, maxAge |-> Nothing,
     notAfter |-> [kind |-> "none", v |-> 0], requiredParams |-> {},
     requiredFields |-> {}, parser |-> FALSE]

LabelName(i) ==
    CASE i = 1 -> "sig1" [] i = 2 -> "sig2" [] i = 3 -> "sig3" [] i = 4 -> "sig4"
      [] i = 5 -> "sig5" [] OTHER -> "sig6"

\* The wire text of an inner-list member and of a Signature member.
WireInnerList(name, items, wparams) ==
    [name |-> name, inner |-> TRUE, items |-> items, v |-> Wire(TrueV, 0),
     params |-> wparams]
WireItem(name, w) ==
    [name |-> name, inner |-> FALSE, items |-> <<>>, v |-> w, params |-> <<>>]

FieldText(name, wparams) == [quoted |-> TRUE, name |-> name, params |-> wparams]
BareFieldText(name, wparams) == [quoted |-> FALSE, name |-> name, params |-> wparams]

VerifyRest ==
    /\ signConfig = NoSignConfig
    /\ signed = NotSigned
    /\ tampered = "none"
    /\ req = NoRequest
    /\ pc = "start"
    /\ now = 0
    /\ signatures = <<>>
    /\ signatureInputs = <<>>
    /\ lstate = <<>>
    /\ settled = <<>>
    /\ lookupCalls = <<>>
    /\ verifyCalls = <<>>
    /\ outcome = Pending

\* Messages with one to MaxLabels signatures, each of a kind that decides its
\* outcome: the key verifies true, false or null, the verifier rejects with
\* an Error or with another value, the key is unknown, keyLookup rejects, or
\* the signature has expired.
FoldKinds ==
    {"k-true", "k-false", "k-null", "k-throw", "k-throwval", "nobody",
     "k-lookup-throws", "expired"}

FoldLabel(i, kind) ==
    WireInnerList(LabelName(i), <<>>,
        IF kind = "expired"
        THEN <<<<"keyid", Wire(StrV("k-true"), 0)>>, <<"expires", Wire(IntV(0), 0)>>>>
        ELSE <<<<"keyid", Wire(StrV(kind), 0)>>>>)

InitFold ==
    \E n \in 1..MaxLabels : \E kinds \in [1..n -> FoldKinds] : \E all \in BOOLEAN :
        /\ clock = 1500
        /\ config = [DefaultVerifyConfig EXCEPT !.all = all]
        /\ message =
               Request("post",
                   <<Header("Host", <<Text(<<"a">>)>>),
                     Header("Signature-Input",
                            [i \in 1..n |-> DictText(<<FoldLabel(i, kinds[i])>>)]),
                     Header("Signature",
                            [i \in 1..n |->
                                DictText(<<WireItem(LabelName(i), Wire(BytesV("b64-S1"), 0))>>)])>>)
        /\ VerifyRest

\* Messages with one signature whose created and expires times, and the
\* clock, the tolerance, maxAge and notAfter of the verifier, range over the
\* first seconds; the key accepts every algorithm or only "alg-a".
OptionalUpTo(n) == {Nothing} \cup {Some(v) : v \in 0..n}

NotAfters ==
    {[kind |-> "none", v |-> 0], [kind |-> "number", v |-> 1],
     [kind |-> "date", v |-> 2 * MsPerSecond + 500]}

TimedParams(keyid, alg, created, expires) ==
    <<<<"keyid", Wire(StrV(keyid), 0)>>>>
    \o (IF alg = "" THEN <<>> ELSE <<<<"alg", Wire(StrV(alg), 0)>>>>)
    \o (IF created.has THEN <<<<"created", Wire(IntV(created.v), 0)>>>> ELSE <<>>)
    \o (IF expires.has THEN <<<<"expires", Wire(IntV(expires.v), 0)>>>> ELSE <<>>)

InitTime ==
    \E nowSec \in 0..MaxTime :
    \E created \in OptionalUpTo(MaxTime) : \E expires \in OptionalUpTo(MaxTime) :
    \E tolerance \in OptionalUpTo(MaxTolerance) : \E maxAge \in OptionalUpTo(MaxAgeBound) :
    \E notAfter \in NotAfters :
    \E key \in {<<"k-true", "">>, <<"k-algs", "alg-a">>, <<"k-algs", "alg-b">>} :
        /\ clock = nowSec * MsPerSecond + 500
        /\ config = [DefaultVerifyConfig EXCEPT !.tolerance = tolerance, !.maxAge = maxAge,
                                                !.notAfter = notAfter]
        /\ message =
               Request("post",
                   <<Header("Host", <<Text(<<"a">>)>>),
                     Header("Signature-Input",
                            <<DictText(<<WireInnerList("sig1", <<>>,
                                           TimedParams(key[1], key[2], created, expires))>>)>>),
                     Header("Signature",
                            <<DictText(<<WireItem("sig1", Wire(BytesV("b64-S1"), 0))>>)>>)>>)
        /\ VerifyRest

\* Messages with one signature whose Signature-Input member is an inner list
\* or a bare item, with or without covered fields, `alg` and `created`, for
\* verifiers that require parameters or fields or all signatures, and a key
\* that is known, unknown, restricted in its algorithms, or whose lookup
\* fails.
InitShape ==
    \E inner \in BOOLEAN :
    \E items \in {<<>>, <<FieldText("host", <<>>)>>,
                  <<FieldText("@signature-params", <<>>), FieldText("host", <<>>)>>} :
    \E keyid \in {"k-true", "k-algs", "nobody", "k-lookup-throws"} :
    \E alg \in {"", "alg-a", "alg-b"} : \E created \in {Nothing, Some(1)} :
    \E requiredParams \in {{}, {"created"}} : \E requiredFields \in {{}, {"host"}} :
    \E all \in BOOLEAN :
        /\ clock = 1500
        /\ config = [DefaultVerifyConfig EXCEPT !.all = all,
                                                !.requiredParams = requiredParams,
                                                !.requiredFields = requiredFields]
        /\ message =
               Request("post",
                   <<Header("Host", <<Text(<<"a">>)>>),
                     Header("Signature-Input",
                            <<DictText(<<
                                IF inner
                                THEN WireInnerList("sig1", items,
                                                   TimedParams(keyid, alg, created, Nothing))
                                ELSE [WireItem("sig1", Wire(IntV(123), 0)) EXCEPT
                                         !.params = TimedParams(keyid, alg, created, Nothing)]>>)>>),
                     Header("Signature",
                            <<DictText(<<WireItem("sig1", Wire(BytesV("b64-S1"), 0))>>)>>)>>)
        /\ VerifyRest

\* Messages whose Signature and Signature-Input headers are each absent, empty
\* or hold one member.
HeaderShapes == {"absent", "empty", "member"}

InitHeaders ==
    \E signature \in HeaderShapes : \E input \in HeaderShapes :
    \E keyid \in {"k-true", "nobody"} : \E all \in BOOLEAN :
        /\ clock = 1500
        /\ config = [DefaultVerifyConfig EXCEPT !.all = all]
        /\ message =
               Request("post",
                   <<Header("Host", <<Text(<<"a">>)>>)>>
                   \o (IF input = "absent" THEN <<>>
                       ELSE <<Header("Signature-Input",
                                <<DictText(IF input = "empty" THEN <<>>
                                           ELSE <<FoldLabel(1, keyid)>>)>>)>>)
                   \o (IF signature = "absent" THEN <<>>
                       ELSE <<Header("Signature",
                                <<DictText(IF signature = "empty" THEN <<>>
                                           ELSE <<WireItem("sig1",
                                                           Wire(BytesV("b64-S1"), 0))>>)>>)>>))
        /\ VerifyRest

\* cavage messages: one Signature header whose created and expires times, and
\* the clock, the tolerance and maxAge of the verifier, range over the first
\* seconds.
CavageEntries(keyid, created, expires, headers, signature) ==
    <<CavageEntry("keyId", <<keyid>>, TRUE), CavageEntry("algorithm", <<"hs2019">>, TRUE)>>
    \o (IF created.has THEN <<CavageEntry("created", <<decimal(created.v)>>, FALSE)>> ELSE <<>>)
    \o (IF expires.has THEN <<CavageEntry("expires", <<decimal(expires.v)>>, FALSE)>> ELSE <<>>)
    \o (IF headers.has THEN <<CavageEntry("headers", headers.v, TRUE)>> ELSE <<>>)
    \o (IF signature THEN <<CavageEntry("signature", <<"b64-S1">>, TRUE)>> ELSE <<>>)

CavageRest ==
    /\ signConfig = NoSignConfig
    /\ signed = NotSigned
    /\ tampered = "none"
    /\ req = NoRequest
    /\ pc = "cavage"
    /\ now = 0
    /\ signatures = <<>>
    /\ signatureInputs = <<>>
    /\ lstate = <<>>
    /\ settled = <<>>
    /\ lookupCalls = <<>>
    /\ verifyCalls = <<>>
    /\ outcome = Pending

InitCavageTime ==
    \E nowSec \in 0..MaxTime :
    \E created \in OptionalUpTo(MaxTime) : \E expires \in OptionalUpTo(MaxTime) :
    \E tolerance \in OptionalUpTo(MaxTolerance) : \E maxAge \in OptionalUpTo(MaxAgeBound) :
        /\ clock = nowSec * MsPerSecond + 500
        /\ config = [DefaultVerifyConfig EXCEPT !.tolerance = tolerance, !.maxAge = maxAge]
        /\ message =
               Request("post",
                   <<Header("Host", <<Text(<<"a">>)>>),
                     Header("Signature",
                            <<CavageText(CavageEntries("k-true", created, expires,
                                                       Some(<<"(created)", "host">>), TRUE))>>)>>)
        /\ CavageRest

\* cavage messages whose `headers` list and whose verifier's requiredFields
\* and requiredParams vary, with a key that verifies, none, or a lookup that
\* fails; the Signature header may lack its signature or be absent.
CavageHeaderLists ==
    {Nothing, Some(<<"host">>), Some(<<"(created)", "host">>), Some(<<"(request-target)">>),
     Some(<<"date">>)}

InitCavageFields ==
    \E headers \in CavageHeaderLists :
    \E requiredFields \in {{}, {"host"}, {"@created"}, {"signature"}} :
    \E requiredParams \in {{}, {"(created)"}, {"created"}} :
    \E keyid \in {"k-true", "k-false", "nobody", "k-lookup-throws"} :
    \E shape \in {"signed", "unsigned", "absent"} :
        /\ clock = MsPerSecond + 500
        /\ config = [DefaultVerifyConfig EXCEPT !.requiredFields = requiredFields,
                                                !.requiredParams = requiredParams]
        /\ message =
               Request("post",
                   <<Header("Host", <<Text(<<"a">>)>>)>>
                   \o (IF shape = "absent" THEN <<>>
                       ELSE <<Header("Signature",
                                <<CavageText(CavageEntries(keyid, Some(1), Nothing, headers,
                                                           shape = "signed"))>>)>>))
        /\ CavageRest

\* signMessage calls: the fields to cover, the parameters to emit and their
\* values, a message with or without a signature of its own, a request or a
\* response bound to its request; the verifier looks the key up in the store
\* or holds the key that accepts exactly what was signed.
HostField == FieldText("host", <<>>)

SignFields ==
    {<<>>, <<HostField>>, <<BareFieldText("Host", <<>>)>>,
     <<BareFieldText("@method", <<>>), HostField>>,
     <<FieldText("host", <<<<"bs", Wire(TrueV, 0)>>>>)>>,
     <<FieldText("host", <<<<"sf", Wire(TrueV, 0)>>>>)>>,
     <<FieldText("missing", <<>>)>>,
     <<FieldText("signature", <<>>)>>,
     <<FieldText("signature-input", <<<<"key", Wire(StrV("sig"), 0)>>>>)>>,
     <<FieldText("@query-param", <<<<"name", Wire(StrV("Pet"), 0)>>>>),
       FieldText("@authority", <<>>), FieldText("@path", <<>>)>>,
     <<FieldText("@custom", <<>>)>>,
     <<FieldText("@signature-params", <<>>), FieldText("@target-uri", <<>>)>>}

SignParams ==
    {[has |-> FALSE, v |-> <<>>],
     [has |-> TRUE, v |-> <<"created", "expires", "nonce">>],
     [has |-> TRUE, v |-> <<"Created">>],
     [has |-> TRUE, v |-> <<"expires", "issued", "keyid">>]}

SignKey(sign) == [id |-> "k-exact", alg |-> "alg-a", sign |-> sign]

OwnSignature ==
    <<Header("signature-input",
             <<DictText(<<WireInnerList("sig", <<HostField>>,
                            <<<<"keyid", Wire(StrV("k-exact"), 0)>>>>)>>)>>),
      Header("signature", <<DictText(<<WireItem("sig", Wire(BytesV("b64-S2"), 0))>>)>>)>>

SignRest ==
    /\ clock = 2 * MsPerSecond + 500
    /\ signed = [NotSigned EXCEPT !.original = message]
    /\ tampered = "none"
    /\ pc = "sign"
    /\ now = 0
    /\ signatures = <<>>
    /\ signatureInputs = <<>>
    /\ lstate = <<>>
    /\ settled = <<>>
    /\ lookupCalls = <<>>
    /\ verifyCalls = <<>>
    /\ outcome = Pending

SignConfigOf(fields, params, created, expires, sign, name) ==
    [key |-> SignKey(sign), name |-> name, params |-> params, fields |-> fields,
     parser |-> \E i \in 1..Len(fields) : fields[i].name = "@custom",
     paramValues |-> [created |-> created, expires |-> expires, issued |-> Date(MsPerSecond),
                      keyid |-> "", alg |-> "", nonce |-> "n1"]]

\* The fields vary under the default parameters.
InitSignFields ==
    \E fields \in SignFields : \E own \in BOOLEAN : \E lookup \in {"exact", "store"} :
    \E name \in {"", "sig"} :
        /\ signConfig = SignConfigOf(fields, [has |-> FALSE, v |-> <<>>], Undefined,
                                     Undefined, "S1", name)
        /\ config = [DefaultVerifyConfig EXCEPT !.keyLookup = lookup,
                                                !.parser = signConfig.parser]
        /\ message = Request("post", <<Header("Host", <<Text(<<"a">>)>>)>>
                                      \o (IF own THEN OwnSignature ELSE <<>>))
        /\ req = NoRequest
        /\ SignRest

\* Messages that already carry signatures under some of the labels sig, sig0
\* and sig1, in either header, signed under the default or a requested name.
LabelsTaken == <<"sig", "sig0", "sig1">>

InitSignLabels ==
    \E inSignature \in SUBSET {"sig", "sig0", "sig1"} :
    \E inInput \in SUBSET {"sig", "sig0", "sig1"} :
    \E name \in {"", "sig", "mine"} :
        /\ signConfig = SignConfigOf(<<HostField>>, [has |-> FALSE, v |-> <<>>], Undefined,
                                     Undefined, "S1", name)
        /\ config = [DefaultVerifyConfig EXCEPT !.keyLookup = "exact"]
        /\ message =
               LET taken(set) == SelectSeq(LabelsTaken, LAMBDA label : label \in set)
                   inputs == taken(inInput)
                   sigs == taken(inSignature)
               IN Request("post",
                      <<Header("Host", <<Text(<<"a">>)>>)>>
                      \o (IF inputs = <<>> THEN <<>>
                          ELSE <<Header("Signature-Input",
                                   <<DictText([i \in 1..Len(inputs) |->
                                       WireInnerList(inputs[i], <<HostField>>,
                                           <<<<"keyid", Wire(StrV("k-true"), 0)>>>>)])>>)>>)
                      \o (IF sigs = <<>> THEN <<>>
                          ELSE <<Header("Signature",
                                   <<DictText([i \in 1..Len(sigs) |->
                                       WireItem(sigs[i], Wire(BytesV("b64-S2"), 0))])>>)>>))
        /\ req = NoRequest
        /\ SignRest

\* The parameters and their values vary over one covered field.
InitSignParams ==
    \E params \in SignParams :
    \E created \in {Undefined, Null, Date(MsPerSecond), Date(3 * MsPerSecond)} :
    \E expires \in {Undefined, Date(MsPerSecond + 999), Date(2 * MsPerSecond)} :
    \E sign \in {"S1", "throws"} :
        /\ signConfig = SignConfigOf(<<HostField>>, params, created, expires, sign, "")
        /\ config = [DefaultVerifyConfig EXCEPT !.keyLookup = "exact"]
        /\ message = Request("post", <<Header("Host", <<Text(<<"a">>)>>)>>)
        /\ req = NoRequest
        /\ SignRest

\* A response signed with components of its own and of its request.
Response(status, headers) ==
    [present |-> TRUE, method |-> "", status |-> status, url |-> Url, headers |-> headers]

InitSignResponse ==
    \E fields \in {<<FieldText("@status", <<>>),
                     FieldText("@method", <<<<"req", Wire(TrueV, 0)>>>>)>>,
                   <<FieldText("@method", <<>>)>>,
                   <<FieldText("@scheme", <<<<"req", Wire(TrueV, 0)>>>>),
                     FieldText("@request-target", <<<<"req", Wire(TrueV, 0)>>>>),
                     FieldText("@query", <<<<"req", Wire(TrueV, 0)>>>>),
                     FieldText("host", <<<<"req", Wire(TrueV, 0)>>>>)>>} :
    \E bound \in BOOLEAN :
        /\ signConfig = SignConfigOf(fields, [has |-> FALSE, v |-> <<>>], Undefined,
                                     Undefined, "S1", "")
        /\ config = [DefaultVerifyConfig EXCEPT !.keyLookup = "exact"]
        /\ message = Response(200, <<Header("Content-Type", <<Text(<<"b">>)>>)>>)
        /\ req = IF bound THEN Request("get", <<Header("Host", <<Text(<<"a">>)>>)>>)
                 ELSE NoRequest
        /\ SignRest

\* cavage signMessage calls: the fields to cover, a request or a response, a
\* message with no signature header or with one named `Signature` or
\* `signature`, and a key that signs or fails.
InitCavageSign ==
    \E fields \in {<<>>, <<HostField>>, <<FieldText("@created", <<>>), HostField>>,
                   <<HostField, HostField>>, <<FieldText("@request-target", <<>>)>>,
                   <<FieldText("missing", <<>>)>>,
                   <<FieldText("host", <<<<"sf", Wire(TrueV, 0)>>>>)>>} :
    \E existing \in {"", "Signature", "signature"} :
    \E sign \in {"S1", "throws"} : \E request \in BOOLEAN :
        /\ clock = 2 * MsPerSecond + 500
        /\ signConfig = SignConfigOf(fields, [has |-> FALSE, v |-> <<>>], Undefined,
                                     Undefined, sign, "")
        /\ config = DefaultVerifyConfig
        /\ message =
               LET headers ==
                       <<Header("Host", <<Text(<<"a">>)>>)>>
                       \o (IF existing = "" THEN <<>>
                           ELSE <<Header(existing,
                                    <<CavageText(CavageEntries("k-true", Some(1), Nothing,
                                                               Some(<<"host">>), TRUE))>>)>>)
               IN IF request THEN Request("post", headers) ELSE Response(200, headers)
        /\ req = NoRequest
        /\ signed = [NotSigned EXCEPT !.original = message]
        /\ tampered = "none"
        /\ pc = "cavage-sign"
        /\ now = 0
        /\ signatures = <<>>
        /\ signatureInputs = <<>>
        /\ lstate = <<>>
        /\ settled = <<>>
        /\ lookupCalls = <<>>
        /\ verifyCalls = <<>>
        /\ outcome = Pending

\* ------------------------------------------------------------ specification
Init == InitFold \/ InitTime \/ InitShape \/ InitHeaders \/ InitCavageTime \/ InitCavageFields \/ InitSignFields \/ InitSignLabels \/ InitSignParams \/ InitSignResponse
    \/ InitCavageSign

Next ==
    \/ SignStart
    \/ SignSettles
    \/ Deliver
    \/ \E h \in 1..Len(message.headers) : \E parts \in RawParts : ReplaceHeader(h, parts)
    \/ \E m \in Methods : ReplaceMethod(m)
    \/ \E k \in {"created", "expires", "keyid"} : \E w \in ParamWireValues : ReplaceParam(k, w)
    \/ VerifyStart
    \/ \E k \in 1..NumLabels : ReduceCallback(k)
    \/ \E i \in 1..NumLabels : LookupRejects(i)
    \/ \E i \in 1..NumLabels : Continue(i)
    \/ \E i \in 1..NumLabels : VerifySettles(i)
    \/ Finish
    \/ CavageSignStart
    \/ CavageSignSettles
    \/ CavageStart
    \/ CavageLookupSettles
    \/ CavageVerifySettles

Spec == Init /\ [][Next]_vars

\* ------------------------------------------------------- labels and results
\* The call is an httpbis one (not a cavage one); it has returned its result;
\* every callback of the reduce has run.
HttpbisCall ==
    pc \notin {"cavage", "cavage-sign", "cavage-signing", "cavage-sign-failed",
               "cavage-lookup", "cavage-verify", "cavage-done"}
Done == outcome.st # "pending"
AllSettled == pc = "await" /\ \A i \in 1..NumLabels : lstate[i] = "settled"

HasKey(i) == lookupOf(config, signatureInputs[i]).found = "key"
NoKey(i) == lookupOf(config, signatureInputs[i]).found = "null"
Verified(i) == \E c \in 1..Len(verifyCalls) : verifyCalls[c].label = i

\* The label's own outcome: key.verify answered true, or its callback threw.
VerifiedTrue(i) ==
    HasKey(i) /\ Verified(i) /\ lstate[i] = "settled" /\ settled[i] = Resolved(Plain("true"))
Raised(i) ==
    /\ lstate[i] = "settled"
    /\ settled[i].st = "rejected"
    /\ settled[i].v.by = signatureInputs[i].name
FirstRaised == CHOOSE i \in 1..NumLabels : Raised(i) /\ \A j \in 1..(i - 1) : ~Raised(j)
LastWithKey == CHOOSE i \in 1..NumLabels : HasKey(i) /\ \A j \in (i + 1)..NumLabels : ~HasKey(j)

True == Resolved(Plain("true"))

\* C1: without `all`, once one label has verified true the result of the
\* call is true, whatever the labels after it come to.
C1_FirstTrueWins ==
    (Done /\ AllSettled /\ ~config.all /\ \E i \in 1..NumLabels : VerifiedTrue(i))
        => outcome = True

\* C2: with `all`, the result is true only if key.verify answered true for
\* every label that has a key, wherever the label stands.
C2_AllTrueOnlyIfEveryKeyTrue ==
    (Done /\ AllSettled /\ config.all /\ outcome = True)
        => \A i \in 1..NumLabels : HasKey(i) => VerifiedTrue(i)

\* C3: with `all`, a label without a key, wherever it stands, makes the call
\* fail with the unknown-key error.
C3_AllUnknownKeyFails ==
    (Done /\ AllSettled /\ config.all /\ \E i \in 1..NumLabels : NoKey(i))
        => (outcome.st = "rejected" /\ outcome.v.val = "UnknownKeyError")

\* C4: without `all`, when no label verified true and some label raised an
\* error, the call fails with the error of the earliest label that raised one.
C4_EarliestErrorWithoutAll ==
    (/\ Done /\ AllSettled /\ ~config.all
     /\ \A i \in 1..NumLabels : ~VerifiedTrue(i)
     /\ \E i \in 1..NumLabels : Raised(i))
        => outcome = settled[FirstRaised]

\* C5: with `all`, when some label raised an error the call fails with the
\* error of the earliest label that raised one.
C5_EarliestErrorWithAll ==
    (Done /\ AllSettled /\ config.all /\ \E i \in 1..NumLabels : Raised(i))
        => outcome = settled[FirstRaised]

\* The same message with the member `name` removed from Signature-Input.
C6_withoutLabel(msg, name) ==
    LET at == LastHeaderIndex(msg.headers, "signature-input")
        kept(text) == [text EXCEPT !.d = SelectSeq(@, LAMBDA m : m.name # name)]
        parts == msg.headers[at].value
    IN [msg EXCEPT !.headers[at].value =
           SelectSeq([p \in 1..Len(parts) |-> kept(parts[p])], LAMBDA t : t.d # <<>>)]

\* C6: without `all`, a label without a key adds nothing: the call ends as
\* it does for the message without that label (when other labels remain),
\* and key.verify is never invoked for the label.
C6_UnknownKeyAddsNothing ==
    (Done /\ AllSettled /\ ~config.all)
        => \A i \in 1..NumLabels :
               (NoKey(i) /\ NumLabels > 1)
                   => /\ ~Verified(i)
                      /\ outcome = verifyMessage(config,
                                                 C6_withoutLabel(message, signatureInputs[i].name),
                                                 req, clock, signed)

\* No label verified true and none raised an error, without `all`.
C7_NoTrueNoError ==
    /\ Done /\ AllSettled /\ ~config.all
    /\ \A i \in 1..NumLabels : ~VerifiedTrue(i) /\ ~Raised(i)

\* C7 as stated: without `all`, when no label verified true and none raised
\* an error, the result is null, also when key.verify answered false.
C7_NullWithoutTrueOrError == C7_NoTrueNoError => outcome = Resolved(Plain("null"))

\* C7 as the code has it: the result is then what key.verify answered for the
\* last label that has a key, false or null, and null when no label has one.
C7_LastKeyAnswers ==
    C7_NoTrueNoError
        => IF \E i \in 1..NumLabels : HasKey(i)
           THEN /\ outcome = settled[LastWithKey]
                /\ outcome.st = "resolved"
                /\ outcome.v.val \in {"false", "null"}
           ELSE outcome = Resolved(Plain("null"))

\* C7 reached: the first label's key.verify answered false, the last label
\* has no key, and the call yields false.
C7_FalsePassedOn ==
    /\ C7_NoTrueNoError
    /\ NumLabels > 1
    /\ HasKey(1) /\ Verified(1)
    /\ NoKey(NumLabels)
    /\ outcome = Resolved(Plain("false"))

\* ------------------------------------------------------- sign, then verify
\* The call verifies what signMessage returned, at the clock of the signing,
\* with the key that accepts exactly the signed base and signature and
\* nothing else configured but the component parser of the signer.
SignedLabel == CHOOSE i \in 1..NumLabels : signatureInputs[i].name = signed.name
SignedParams == ParseParams(signed.signatureInput.params)

C8_RoundTripRun ==
    /\ signed.done /\ Done /\ tampered = "none"
    /\ config = [DefaultVerifyConfig EXCEPT !.keyLookup = "exact",
                                            !.parser = signConfig.parser]

\* C8 as stated: verifying the output of a signMessage that succeeded, at
\* the same clock and with the exactly-accepting key, yields true.
C8_RoundTrip == C8_RoundTripRun => outcome = True

\* The signature is neither expired nor created after the clock, and covers
\* neither of the two headers signMessage rewrites.
C8_Fresh ==
    /\ ParamHas(SignedParams, "expires") => ParamGet(SignedParams, "expires").n >= Floor(clock)
    /\ ParamHas(SignedParams, "created") => ParamGet(SignedParams, "created").n <= Floor(clock)
C8_CoversOwnHeaders ==
    \E k \in 1..Len(signed.signatureInput.items) :
        toLowerCase(signed.signatureInput.items[k].name) \in {"signature", "signature-input"}

\* C8 as the code has it: the round trip yields true when the signed
\* `expires` is not before the clock, the signed `created` is not after it,
\* and no covered field is the Signature or the Signature-Input header.
C8_RoundTripFresh ==
    (C8_RoundTripRun /\ C8_Fresh /\ ~C8_CoversOwnHeaders) => outcome = True

\* C8 reached: a signature over at least one field was signed, delivered
\* untouched, handed to key.verify, and the call yields true.
C8_RoundTripReached ==
    /\ C8_RoundTripRun /\ C8_Fresh /\ ~C8_CoversOwnHeaders
    /\ Len(signed.signatureInput.items) > 0
    /\ Len(verifyCalls) > 0
    /\ outcome = True

\* The value a covered field resolves to in a message.
C9_resolved(k, msg) == createSignatureBase(<<signed.signatureInput.items[k]>>, config.parser, msg, req)
C9_ComponentReplaced ==
    \E k \in 1..Len(signed.signatureInput.items) :
        C9_resolved(k, message) # C9_resolved(k, signed.original)
C9_ParameterReplaced ==
    /\ pc = "await"
    /\ \E i \in 1..NumLabels : signatureInputs[i].name = signed.name
    /\ signatureInputs[SignedLabel].params # SignedParams

\* C9: after signing, when a covered component resolves to another value or
\* a parameter of the signature has another value, the signature does not
\* verify true and the call does not yield true, the key accepting only the
\* exact base and signature that were signed.
C9_StructuralIntegrity ==
    (/\ signed.done /\ pc = "await" /\ config.keyLookup = "exact"
     /\ C9_ComponentReplaced \/ C9_ParameterReplaced)
        => /\ outcome # True
           /\ \A i \in 1..NumLabels :
                  signatureInputs[i].name = signed.name => settled[i] # True

\* C9 reached: a covered header was replaced by one that resolves to another
\* value, key.verify was invoked for the signature, and the call yields false.
C9_ReplacedHeaderRejected ==
    /\ signed.done /\ Done /\ config.keyLookup = "exact"
    /\ tampered = "header"
    /\ C9_ComponentReplaced
    /\ Verified(SignedLabel)
    /\ outcome = Resolved(Plain("false"))

\* ------------------------------------------------------------------ expiry
C10_hasExpires(i) ==
    /\ lstate[i] = "settled" /\ HasKey(i)
    /\ ParamHas(signatureInputs[i].params, "expires")
    /\ ParamGet(signatureInputs[i].params, "expires").kind = "int"
C10_expired(i) == settled[i] = Rejected(ErrorOf("ExpiredError", signatureInputs[i].name))
C10_pastExpiry(i) ==
    now > ParamGet(signatureInputs[i].params, "expires").n + toleranceOf(config)
C10_reachesExpiresCheck(i) ==
    /\ ~algRejected(signatureInputs[i], lookupOf(config, signatureInputs[i]))
    /\ signatureInputs[i].inner
    /\ hasRequiredParams(config, signatureInputs[i])
    /\ hasRequiredFields(config, signatureInputs[i])
    /\ ~createdRejected(config, signatureInputs[i], now)

\* C10 as stated: a label with a key and an `expires` parameter fails with
\* the expired error exactly when now > expires + tolerance.
C10_ExpiredExactly ==
    \A i \in 1..NumLabels : C10_hasExpires(i) => (C10_expired(i) <=> C10_pastExpiry(i))

\* C10 as the code has it: the same, of a label that passes the checks made
\* before the expires check (algorithm, inner list, required parameters and
\* fields, created).
C10_ExpiredExactlyAtExpiresCheck ==
    \A i \in 1..NumLabels :
        (C10_hasExpires(i) /\ C10_reachesExpiresCheck(i))
            => (C10_expired(i) <=> C10_pastExpiry(i))

\* C10 reached: now is past `expires` but within the tolerance, and the
\* label verifies.
C10_WithinTolerance ==
    /\ NumLabels = 1 /\ C10_hasExpires(1) /\ C10_reachesExpiresCheck(1)
    /\ toleranceOf(config) > 0
    /\ now > ParamGet(signatureInputs[1].params, "expires").n
    /\ ~C10_pastExpiry(1)
    /\ settled[1] = True

\* ----------------------------------------------------------------- created
C11_hasCreated(i) ==
    /\ lstate[i] = "settled" /\ HasKey(i)
    /\ ParamHas(signatureInputs[i].params, "created")
    /\ ParamGet(signatureInputs[i].params, "created").kind = "int"
C11_reachesCreatedCheck(i) ==
    /\ ~algRejected(signatureInputs[i], lookupOf(config, signatureInputs[i]))
    /\ signatureInputs[i].inner
    /\ hasRequiredParams(config, signatureInputs[i])
    /\ hasRequiredFields(config, signatureInputs[i])
C11_age(i) == now - (ParamGet(signatureInputs[i].params, "created").n - toleranceOf(config))

\* C11: for every configured maxAge, 0 included, a label with a key and a
\* `created` parameter that comes to the created check fails with the expired
\* error whenever now - (created - tolerance) > maxAge.
C11_MaxAgeEnforced ==
    \A i \in 1..NumLabels :
        (/\ C11_hasCreated(i) /\ C11_reachesCreatedCheck(i)
         /\ config.maxAge.has
         /\ C11_age(i) > config.maxAge.v)
            => C10_expired(i)

C12_created(i) == ParamGet(signatureInputs[i].params, "created").n
C12_defaults == ~config.maxAge.has /\ config.notAfter.kind = "none"
C12_notPastExpiry(i) ==
    ParamHas(signatureInputs[i].params, "expires")
        => now <= ParamGet(signatureInputs[i].params, "expires").n + toleranceOf(config)

\* C12: with tolerance T, no maxAge and the default notAfter, a label with a
\* key that comes to the created check is rejected for its `created` exactly
\* when created > now + T: it then fails as expired, and otherwise (its
\* `expires` permitting) it is not rejected as expired.
C12_CreatedWithinTolerance ==
    \A i \in 1..NumLabels :
        (C11_hasCreated(i) /\ C11_reachesCreatedCheck(i) /\ C12_defaults)
            => /\ C12_created(i) > now + toleranceOf(config) => C10_expired(i)
               /\ (C12_created(i) <= now + toleranceOf(config) /\ C12_notPastExpiry(i))
                      => ~C10_expired(i)

\* C12 reached: a signature created in the future, within the tolerance,
\* verifies.
C12_FutureWithinTolerance ==
    /\ NumLabels = 1 /\ C11_hasCreated(1) /\ C11_reachesCreatedCheck(1) /\ C12_defaults
    /\ toleranceOf(config) > 0
    /\ C12_created(1) > now
    /\ C12_created(1) <= now + toleranceOf(config)
    /\ Verified(1)
    /\ settled[1] = True

\* ---------------------------------------------------------------- cavage
\* The cavage call has returned; the parameters of its Signature header; the
\* message with one parameter of that header taken out.
CavageDone == pc = "cavage-done"
CavageRejected == CavageDone /\ outcome = Resolved(Plain("false"))
CavageParts ==
    cavageParsedHeader(join(message.headers[HeaderIndex(message.headers, "signature")].value).c).parts
CavageHas(key) ==
    /\ HeaderIndex(message.headers, "signature") # 0
    /\ ParamHas(CavageParts, key)
CavageWithout(key) ==
    LET at == HeaderIndex(message.headers, "signature")
    IN [message EXCEPT !.headers[at].value =
           <<CavageText(SelectSeq(join(@).c, LAMBDA e : e.key # key))>>]

C13_reachesExpiresCheck ==
    CavageHas("expires") /\ cavageBeforeLookup(config, CavageWithout("expires"), now).lookup
C13_expires == ParamGet(CavageParts, "expires").n

\* C13: a cavage signature that carries `expires` and passes the checks before
\* it is rejected on expiry exactly when now > expires + tolerance.
C13_CavageExpiredExactly ==
    (CavageDone /\ C13_reachesExpiresCheck)
        => (CavageRejected <=> now > C13_expires + toleranceOf(config))

C14_reachesCreatedCheck ==
    /\ CavageHas("created")
    /\ LET bare(msg) == cavageBeforeLookup(config, msg, now).lookup
       IN bare([message EXCEPT !.headers[HeaderIndex(message.headers, "signature")].value =
                   <<CavageText(SelectSeq(join(@).c,
                                          LAMBDA e : e.key \notin {"created", "expires"}))>>])
C14_age == now - (ParamGet(CavageParts, "created").n - toleranceOf(config))

\* C14: a cavage signature that carries `created` and passes the checks before
\* it is rejected when now - (created - tolerance) > maxAge, and is not
\* rejected for its age when it is within maxAge.
C14_CavageMaxAge ==
    (CavageDone /\ C14_reachesCreatedCheck /\ config.maxAge.has)
        => /\ C14_age > config.maxAge.v => CavageRejected
           /\ (C14_age <= config.maxAge.v /\ C14_age >= 0 /\ ~CavageHas("expires"))
                  => ~CavageRejected

C15_otherwiseAccepted ==
    cavageBeforeLookup([config EXCEPT !.requiredFields = {}], message, now).lookup
C15_covers(field) ==
    \E i \in 1..Len(ParamGet(CavageParts, "headers").words) :
        cavageComponent(ParamGet(CavageParts, "headers").words[i]) = toLowerCase(field)
C15_rejected == CavageRejected /\ lookupCalls = <<>>

\* C15: with requiredFields configured, a cavage signature that passes every
\* other check is rejected exactly when its `headers` list lacks a required
\* field.
C15_CavageRequiredFields ==
    (CavageDone /\ C15_otherwiseAccepted /\ config.requiredFields # {})
        => (C15_rejected <=> \E field \in config.requiredFields : ~C15_covers(field))

\* ---------------------------------------------------------- malformed input
C16_malformed(i) == ~signatureInputs[i].inner
C16_MalformedError == Rejected(ErrorOf("MalformedSignatureError", "sig1"))

\* C16: a Signature-Input member that is no inner list makes the call fail
\* with the malformed-signature error whatever keyLookup returns for it; the
\* member is never passed over.
C16_MalformedAlwaysFails ==
    (Done /\ AllSettled /\ NumLabels = 1 /\ C16_malformed(1))
        => outcome = C16_MalformedError

\* ------------------------------------------------------ checks before verify
\* key.verify was invoked for the label; the error of the first of the
\* algorithm, requiredParams, requiredFields, created and expires checks that
\* fails for it, or "".
C17_invoked(i) == \E c \in 1..Len(verifyCalls) : verifyCalls[c].label = i
C17_failure(i) ==
    IF algRejected(signatureInputs[i], lookupOf(config, signatureInputs[i]))
    THEN "UnsupportedAlgorithmError"
    ELSE IF ~hasRequiredParams(config, signatureInputs[i])
            \/ ~hasRequiredFields(config, signatureInputs[i])
    THEN "UnacceptableSignatureError"
    ELSE IF createdRejected(config, signatureInputs[i], now)
            \/ expiresRejected(config, signatureInputs[i], now)
    THEN "ExpiredError"
    ELSE ""
C17_failed(i) ==
    /\ ~C17_invoked(i)
    /\ settled[i] = Rejected(ErrorOf(C17_failure(i), signatureInputs[i].name))

\* C17 as stated: key.verify is invoked for a label only with a key and every
\* check passed, and a label with a key that fails a check settles with the
\* error of that check without key.verify.
C17_VerifyAfterChecks ==
    \A i \in 1..NumLabels :
        /\ C17_invoked(i) => (HasKey(i) /\ C17_failure(i) = "")
        /\ (lstate[i] = "settled" /\ HasKey(i) /\ C17_failure(i) # "") => C17_failed(i)

\* C17: the same, for a label whose Signature-Input member is an inner list
\* or whose algorithm check fails: a bare item that passes the algorithm
\* check settles with the malformed-signature error before the other checks.
C17_VerifyAfterChecksOfInnerList ==
    \A i \in 1..NumLabels :
        /\ C17_invoked(i) => (HasKey(i) /\ C17_failure(i) = "")
        /\ (lstate[i] = "settled" /\ HasKey(i) /\ C17_failure(i) # ""
            /\ (signatureInputs[i].inner \/ C17_failure(i) = "UnsupportedAlgorithmError"))
               => C17_failed(i)

\* C17 reached: a signature with a key that lacks a required field has
\* settled with the unacceptable-signature error and no key.verify call.
C17_MissingFieldNotVerified ==
    /\ NumLabels = 1 /\ lstate[1] = "settled" /\ HasKey(1)
    /\ signatureInputs[1].inner
    /\ ~algRejected(signatureInputs[1], lookupOf(config, signatureInputs[1]))
    /\ hasRequiredParams(config, signatureInputs[1])
    /\ ~hasRequiredFields(config, signatureInputs[1])
    /\ settled[1] = Rejected(ErrorOf("UnacceptableSignatureError", "sig1"))
    /\ verifyCalls = <<>>

\* ------------------------------------------------------ incomplete headers
\* verifyMessage has read the headers; a header is there, holds nothing (it
\* is absent or its value is empty), or holds members.
C18_started == pc \in {"done", "reduce", "await"}
C18_present(lname) == LastHeaderIndex(message.headers, lname) # 0
C18_text(lname) == join(message.headers[LastHeaderIndex(message.headers, lname)].value)
C18_holdsNothing(lname) ==
    C18_present(lname) => (C18_text(lname).s = <<>> /\ C18_text(lname).d = <<>>)
C18_holdsMembers(lname) == C18_present(lname) /\ C18_text(lname).d # <<>>
C18_null == pc = "done" /\ outcome = Resolved(Plain("null")) /\ lookupCalls = <<>>
C18_error ==
    pc = "done" /\ outcome.st = "rejected" /\ outcome.v.isError /\ lookupCalls = <<>>

\* C18 as stated: with neither header the call returns null without
\* keyLookup, with exactly one of them it fails with an error.
C18_IncompleteHeaders ==
    C18_started =>
        /\ (~C18_present("signature") /\ ~C18_present("signature-input")) => C18_null
        /\ (C18_present("signature") # C18_present("signature-input")) => C18_error

\* C18: with no member in either header the call returns null without
\* keyLookup; with members in one header and none in the other it fails with
\* an error.
C18_IncompleteMembers ==
    C18_started =>
        /\ (C18_holdsNothing("signature") /\ C18_holdsNothing("signature-input")) => C18_null
        /\ \/ C18_holdsMembers("signature") /\ C18_holdsNothing("signature-input")
           \/ C18_holdsNothing("signature") /\ C18_holdsMembers("signature-input")
           => C18_error

\* C18 reached: a message with a Signature header and no Signature-Input
\* header has failed with an error before any keyLookup.
C18_MissingInputFails ==
    /\ C18_started
    /\ C18_holdsMembers("signature") /\ ~C18_present("signature-input")
    /\ outcome = Rejected(ErrorOf("Error", "")) /\ lookupCalls = <<>>

\* ------------------------------------------------------------- unknown key
\* C19: without `all`, a message whose one signature has no key makes the
\* call fail with an error instead of resolving to a value.
C19_UnknownKeyThrows ==
    (Done /\ AllSettled /\ ~config.all /\ NumLabels = 1 /\ NoKey(1))
        => (outcome.st = "rejected" /\ outcome.v.isError)

\* ------------------------------------------------------------ unique label
\* The labels of the two dictionaries of the message handed to signMessage,
\* and the name asked for.
C20_taken ==
    LET names(lname) ==
            MemberNames(parseDictionary(HeaderDictText(signed.original.headers, lname).wire))
    IN names("signature") \cup names("signature-input")
C20_requested == IF signConfig.name = "" THEN "sig" ELSE signConfig.name

\* C20: the label of the new signature is the requested name (`sig` by
\* default) when neither dictionary has it, else the name followed by the
\* smallest count that makes a label neither has; it is never a label either
\* dictionary had.
C20_UniqueLabel ==
    (signed.done /\ HttpbisCall) =>
        /\ C20_requested \notin C20_taken => signed.name = C20_requested
        /\ C20_requested \in C20_taken =>
               \E k \in 0..Len(LabelsTaken) :
                   /\ signed.name = withCount(C20_requested, k)
                   /\ \A j \in 0..(k - 1) : withCount(C20_requested, j) \in C20_taken
        /\ signed.name \notin C20_taken

\* C20 reached: `sig` and `sig0` were taken, one in each header, and the new
\* signature is `sig1`.
C20_SecondCount ==
    /\ signed.done
    /\ C20_requested = "sig"
    /\ MemberNames(parseDictionary(HeaderDictText(signed.original.headers,
                                                  "signature").wire)) = {"sig0"}
    /\ MemberNames(parseDictionary(HeaderDictText(signed.original.headers,
                                                  "signature-input").wire)) = {"sig"}
    /\ signed.name = "sig1"

\* ------------------------------------------------------ signing keeps members
\* signMessage has returned and nothing was replaced since; the dictionary a
\* header of the input and of the output holds; the names of the headers that
\* are `lname` in lower case.
C21_signed == signed.done /\ tampered = "none" /\ HttpbisCall
C21_before(lname) == parseDictionary(HeaderDictText(signed.original.headers, lname).wire)
C21_after(lname) == parseDictionary(HeaderDictText(message.headers, lname).wire)
C21_names(headers, lname) ==
    {headers[i].name : i \in {j \in 1..Len(headers) : toLowerCase(headers[j].name) = lname}}
C21_kept(lname, default) ==
    /\ Len(C21_after(lname)) = Len(C21_before(lname)) + 1
    /\ SubSeq(C21_after(lname), 1, Len(C21_before(lname))) = C21_before(lname)
    /\ C21_after(lname)[Len(C21_after(lname))].name = signed.name
    /\ C21_names(message.headers, lname) =
           IF C21_names(signed.original.headers, lname) = {} THEN {default}
           ELSE C21_names(signed.original.headers, lname)

\* C21: after signing, each of the two dictionaries holds the members it had,
\* unchanged and in their order, and one new member after them, under the
\* header name the input used for it.
C21_MembersKept ==
    C21_signed => (C21_kept("signature", "Signature")
                   /\ C21_kept("signature-input", "Signature-Input"))

\* C21 reached: a message that had one signature under lower-case header
\* names carries a second after it under the same names.
C21_AddedToExisting ==
    /\ C21_signed
    /\ C21_names(message.headers, "signature") = {"signature"}
    /\ C21_names(message.headers, "signature-input") = {"signature-input"}
    /\ Len(C21_before("signature")) = 1 /\ Len(C21_after("signature")) = 2
    /\ Len(C21_before("signature-input")) = 1 /\ Len(C21_after("signature-input")) = 2
    /\ C21_after("signature-input")[1] = C21_before("signature-input")[1]

\* ------------------------------------------------------- the input message
\* `signed.original` is the message object the caller handed to signMessage.
\* A step leaves it as it was; a call that fails has produced no message, and
\* a call that returns has produced a message that keeps every other header
\* of the input in place and carries a signature header the input had not.
C22_step ==
    /\ signed'.original = signed.original
    /\ pc' \in {"sign-failed", "cavage-sign-failed"}
           => (~signed'.done /\ message' = signed'.original)
    /\ (signed'.done /\ ~signed.done) =>
           /\ message' # signed.original
           /\ [message' EXCEPT !.headers = signed.original.headers] = signed.original
           /\ \A i \in 1..Len(signed.original.headers) :
                  toLowerCase(signed.original.headers[i].name)
                      \notin {"signature", "signature-input"}
                  => message'.headers[i] = signed.original.headers[i]
           /\ \E i \in 1..Len(message'.headers) :
                  /\ toLowerCase(message'.headers[i].name) = "signature"
                  /\ \A j \in 1..Len(signed.original.headers) :
                         signed.original.headers[j] # message'.headers[i]

\* C22: signMessage, httpbis and cavage, never modifies the message it is
\* handed: it returns a new message with the added signature headers, or
\* fails without producing a message.
C22_InputNotModified == [][C22_step]_vars

\* C22 reached: key.sign has rejected, no message was produced and the
\* input, which carried a signature of its own, is as it was.
C22_FailedSignLeavesInput ==
    /\ pc \in {"sign-failed", "cavage-sign-failed"} /\ signConfig.key.sign = "throws"
    /\ ~signed.done /\ message = signed.original
    /\ \E i \in 1..Len(message.headers) : toLowerCase(message.headers[i].name) = "signature"

\* ------------------------------------------------ the @signature-params line
\* The "@signature-params" line of a base is its last line and its only one.
C23_isParamsLine(line) == ~line.blank /\ line.key.name = "@signature-params"
C23_lastAndOnce(base) ==
    /\ base # <<>>
    /\ C23_isParamsLine(base[Len(base)])
    /\ \A i \in 1..(Len(base) - 1) : ~C23_isParamsLine(base[i])

\* C23: in every base handed to key.sign or key.verify the
\* "@signature-params" line is the last line and the only one, and a field
\* "@signature-params" of the signer makes no covered component.
C23_SignatureParamsLast ==
    HttpbisCall =>
        /\ signed.base # <<>> =>
               /\ C23_lastAndOnce(signed.base)
               /\ \A i \in 1..Len(signed.signatureInput.items) :
                      toLowerCase(signed.signatureInput.items[i].name) # "@signature-params"
        /\ \A c \in 1..Len(verifyCalls) : C23_lastAndOnce(verifyCalls[c].base)

\* C23 reached: a signer asked to cover "@signature-params" and
\* "@target-uri" has handed key.sign a base of two lines.
C23_ListedFieldDropped ==
    /\ HttpbisCall /\ signed.done
    /\ \E i \in 1..Len(signConfig.fields) : signConfig.fields[i].name = "@signature-params"
    /\ Len(signed.base) = 2
    /\ Len(signed.signatureInput.items) = 1

\* -------------------------------------------------------------- determinism
\* A signMessage call is awaiting key.sign; a second, independent call with
\* the same configuration and message at the clock reading `at` hands
\* key.sign the same base and emits the same Signature-Input.
C24_signing == pc = "signing"
C24_sameAt(at) ==
    LET same(plan) ==
            plan.ok /\ plan.base = signed.base /\ plan.signatureInput = signed.signatureInput
    IN same(signingPlan(signConfig, message, req, at))
C24_createdGiven == signConfig.paramValues.created.kind # "undefined"

\* C24 as stated: a second call, whenever it is made, passes the same base and
\* emits the same Signature-Input.
C24_Deterministic ==
    C24_signing => (C24_sameAt(clock + 499) /\ C24_sameAt(clock + MsPerSecond))

\* C24: a second call passes the same base and emits the same Signature-Input
\* when it is made within the same second, or at any time when paramValues
\* gives `created` (a date, or null).
C24_DeterministicAtSameSecond ==
    C24_signing =>
        /\ C24_sameAt(clock + 499)
        /\ C24_createdGiven => C24_sameAt(clock + MsPerSecond)

\* C24 reached: a call with `created` given and `expires` defaulted, emitting
\* both, is repeated a second later with the same base.
C24_GivenCreatedRepeats ==
    /\ C24_signing
    /\ signConfig.paramValues.created.kind = "date"
    /\ signConfig.paramValues.expires.kind = "undefined"
    /\ ParamHas(signed.signatureInput.params, "created")
    /\ ParamHas(signed.signatureInput.params, "expires")
    /\ C24_sameAt(clock + MsPerSecond)

\* ------------------------------------------------- parameters as timestamps
\* keyLookup was invoked for the label; the parameters object it was handed.
C25_lookedUp(i) == \E c \in 1..Len(lookupCalls) : lookupCalls[c] = i
C25_handed(i) == signatureParams(signatureInputs[i].params)
C25_timestamp(i, key) ==
    ParamHas(signatureInputs[i].params, key) => ParamGet(C25_handed(i), key).kind = "date"

\* C25: the parameters handed to keyLookup and key.verify for a label carry
\* `created` and `expires`, when the label has them, as timestamps.
C25_TimestampsConverted ==
    HttpbisCall =>
        \A i \in 1..NumLabels :
            C25_lookedUp(i) => (C25_timestamp(i, "created") /\ C25_timestamp(i, "expires"))

\* ------------------------------------------------------- one verify at a time
\* C26: key.verify is invoked in the order of the labels, and while it runs
\* for a label every earlier label has settled.
C26_SequentialVerify ==
    HttpbisCall =>
        /\ \A c, d \in 1..Len(verifyCalls) :
               c < d => verifyCalls[c].label < verifyCalls[d].label
        /\ \A i \in 1..NumLabels :
               lstate[i] = "verifying" => \A j \in 1..(i - 1) : lstate[j] = "settled"

\* ------------------------------------------------- keyLookup for every label
\* The labels of the Signature-Input header of the message, and the calls of
\* keyLookup once the reduce has run every callback to its await.
C27_labels == parseDictionary(C18_text("signature-input").d)
C27_oncePerLabel == lookupCalls = [i \in 1..Len(C27_labels) |-> i]
C27_pastReduce == pc \in {"done", "await"}

\* C27 as stated: with both headers in the message, keyLookup is invoked once
\* for every label of Signature-Input.
C27_LookupOncePresent ==
    (C27_pastReduce /\ C18_present("signature") /\ C18_present("signature-input")
        /\ C18_text("signature-input").s = <<>>)
        => C27_oncePerLabel

\* C27: with members in both headers, keyLookup is invoked once for every
\* label of Signature-Input, in label order, with and without `all` and
\* whatever the other labels come to; no label is looked up twice.
C27_LookupOncePerLabel ==
    /\ (C27_pastReduce /\ C18_holdsMembers("signature") /\ C18_holdsMembers("signature-input")
           /\ C18_text("signature").s = <<>> /\ C18_text("signature-input").s = <<>>)
           => (pc = "await" /\ C27_oncePerLabel)
    /\ HttpbisCall => \A c, d \in 1..Len(lookupCalls) : c < d => lookupCalls[c] < lookupCalls[d]

\* C27 reached: the first label raised an error, the second verified true,
\* and the key of the third was looked up all the same.
C27_LookedUpAfterOutcomes ==
    /\ pc = "await" /\ NumLabels = 3
    /\ Raised(1) /\ VerifiedTrue(2)
    /\ lookupCalls = <<1, 2, 3>>

\* --------------------------------------------------- tolerance only widens
\* A label is rejected on time grounds when the created or the expires check
\* throws; the same call under a larger tolerance.
C28_timeRejected(cfg, i) ==
    createdRejected(cfg, signatureInputs[i], now) \/ expiresRejected(cfg, signatureInputs[i], now)
C28_larger == (toleranceOf(config) + 1)..(MaxTolerance + 1)
C28_with(T) == [config EXCEPT !.tolerance = [has |-> TRUE, v |-> T]]

\* C28: a label that the time checks accept under the tolerance of the call
\* is accepted by them under every larger tolerance, for the same message,
\* clock, maxAge and notAfter.
C28_ToleranceWidens ==
    pc = "await" =>
        \A i \in 1..NumLabels : \A T \in C28_larger :
            ~C28_timeRejected(config, i) => ~C28_timeRejected(C28_with(T), i)

\* ------------------------------------------- one key.sign, one Signature-Input
\* The text of the "@signature-params" line of the base handed to key.sign,
\* and the text of the member of the Signature-Input header of `headers`
\* under the new label.
C29_paramsLine == signed'.base[Len(signed'.base)].val.l[1]
C29_emitted(headers) ==
    LET wire == HeaderDictText(headers, "signature-input").wire
        at == CHOOSE i \in 1..Len(wire) : wire[i].name = signed'.name
    IN [inner |-> wire[at].inner, items |-> wire[at].items,
        v |-> wire[at].v, params |-> wire[at].params]
C29_step ==
    /\ (pc' = "signing" /\ pc # "signing") => (pc = "sign" /\ ~signed.done)
    /\ (pc' = "sign" => pc = "sign")
    /\ (signed'.done /\ ~signed.done) =>
           /\ pc = "signing"
           /\ signed'.base = signed.base
           /\ signed'.name \in MemberNames(HeaderDictText(message'.headers, "signature-input").wire)
           /\ C29_emitted(message'.headers) = C29_paramsLine

\* C29: key.sign is invoked once in a signMessage call that succeeds, and the
\* Signature-Input member written under the new label is, character for
\* character, the value of the "@signature-params" line of the base that
\* key.sign was handed.
C29_OneSignSameInput == [][HttpbisCall => C29_step]_vars

\* C29 reached: a signed message whose new Signature-Input member covers a
\* component and carries parameters, next to a member that was there before.
C29_SignedWithParams ==
    /\ HttpbisCall /\ C21_signed
    /\ Len(C21_after("signature-input")) > 1
    /\ signed.signatureInput.items # <<>>
    /\ Len(signed.signatureInput.params) > 1
    /\ DictGet(HeaderDictText(message.headers, "signature-input").wire, signed.name).params
           = signed.signatureInput.params

\* ------------------------------------------------ one cavage signature header
\* The headers of the message that are named `signature` in any letter case,
\* and the header text that carries the signature key.sign returned.
C30_cavageSigned == signed.done /\ ~HttpbisCall
C30_signatureHeaders ==
    {i \in 1..Len(message.headers) : toLowerCase(message.headers[i].name) = "signature"}
C30_carriesNew(header) ==
    \E part \in 1..Len(header.value) : \E e \in 1..Len(header.value[part].c) :
        /\ header.value[part].c[e].key = "signature"
        /\ header.value[part].c[e].words = <<toBase64(signed.signature)>>

\* C30: the message cavage signMessage returns has one header named
\* `signature` in any letter case, and that header carries the new signature.
C30_OneSignatureHeader ==
    C30_cavageSigned =>
        /\ Cardinality(C30_signatureHeaders) = 1
        /\ \A i \in C30_signatureHeaders : C30_carriesNew(message.headers[i])

====
